---------------------------- MODULE Spec2Model ----------------------------
(***************************************************************************)
(* A model of the DoIt undo/redo store of packages/engine/src/index.ts.    *)
(*                                                                         *)
(* JavaScript values are modelled with their identity: an object or an     *)
(* array is a cell of a heap and a value that refers to it is a reference, *)
(* so that the sharing the code creates (a redo operation and the tree     *)
(* holding the same object, an undo payload placed in the tree by          *)
(* reference) is part of the model.  Strings are sequences of one-letter   *)
(* strings, so that the path parser works on the characters of a path.     *)
(*                                                                         *)
(* Domain of the model: numbers are naturals; a string is numeric exactly  *)
(* when it is empty or made of decimal digits (no sign, fraction, exponent *)
(* or blank occurs in the strings of the model); no path names a property  *)
(* inherited from a prototype (length, constructor, ...).                  *)
(***************************************************************************)
EXTENDS Integers, Sequences, FiniteSets, TLC

(***************************************************************************)
(* Characters and strings                                                  *)
(***************************************************************************)
Digits == <<"0", "1", "2", "3", "4", "5", "6", "7", "8", "9">>

DigitChars == {Digits[i] : i \in 1..10}

LetterChars ==
    {"a","b","c","d","e","f","g","h","i","j","k","l","m",
     "n","o","p","q","r","s","t","u","v","w","x","y","z",
     "A","B","C","D","E","F","G","H","I","J","K","L","M",
     "N","O","P","Q","R","S","T","U","V","W","X","Y","Z"}

\* \w of the regular expression
WordChars == LetterChars \cup DigitChars \cup {"_"}

DigitValue(c) == (CHOOSE i \in 1..10 : Digits[i] = c) - 1

IsDigits(s) == Len(s) > 0 /\ \A i \in 1..Len(s) : s[i] \in DigitChars

RECURSIVE DigitsToNat(_)
DigitsToNat(s) ==
    IF Len(s) = 0 THEN 0
    ELSE 10 * DigitsToNat(SubSeq(s, 1, Len(s) - 1)) + DigitValue(s[Len(s)])

\* String(n) for a natural n
RECURSIVE NatToStr(_)
NatToStr(n) ==
    IF n < 10 THEN <<Digits[n + 1]>>
    ELSE NatToStr(n \div 10) \o <<Digits[(n % 10) + 1]>>

\* A canonical array index: the string of a natural ("0", "7", "12", not "07")
IsIndexKey(k) == IsDigits(k) /\ NatToStr(DigitsToNat(k)) = k

Max(a, b) == IF a >= b THEN a ELSE b

(***************************************************************************)
(* Values.  t is the type tag; s holds a string's characters, n a number,  *)
(* a boolean (0/1) or the address of an object.                            *)
(***************************************************************************)
Undefined == [t |-> "undefined", s |-> <<>>, n |-> 0]
Null == [t |-> "null", s |-> <<>>, n |-> 0]
Num(i) == [t |-> "number", s |-> <<>>, n |-> i]
Str(x) == [t |-> "string", s |-> x, n |-> 0]
Bool(b) == [t |-> "boolean", s |-> <<>>, n |-> IF b THEN 1 ELSE 0]
Ref(a) == [t |-> "ref", s |-> <<>>, n |-> a]

IsRef(v) == v.t = "ref"
IsNullish(v) == v.t \in {"undefined", "null"}
\* typeof v === 'object'
TypeofObject(v) == v.t \in {"ref", "null"}
\* !v
Falsy(v) ==
    \/ v.t \in {"undefined", "null"}
    \/ v.t = "number" /\ v.n = 0
    \/ v.t = "boolean" /\ v.n = 0
    \/ v.t = "string" /\ v.s = <<>>

(***************************************************************************)
(* The heap.  A cell is an object: its own properties m (keys are strings) *)
(* and, for an array, its length; an array's elements are the properties   *)
(* named by index keys, and a missing one is a hole.                       *)
(***************************************************************************)
EmptyProps == [k \in {} |-> Undefined]

NewObject == [arr |-> FALSE, len |-> 0, m |-> EmptyProps]
NewArray == [arr |-> TRUE, len |-> 0, m |-> EmptyProps]

IsArray(h, v) == IsRef(v) /\ h[v.n].arr

Keys(h, v) == DOMAIN h[v.n].m

\* v[k] for a non-nullish v
GetProp(h, v, k) ==
    IF IsRef(v)
    THEN IF k \in DOMAIN h[v.n].m THEN h[v.n].m[k] ELSE Undefined
    ELSE IF v.t = "string" /\ IsIndexKey(k) /\ DigitsToNat(k) < Len(v.s)
         THEN Str(<<v.s[DigitsToNat(k) + 1]>>)
         ELSE Undefined

\* v[k] = x for an object v
SetProp(h, v, k, x) ==
    LET c == h[v.n]
        m2 == [j \in (DOMAIN c.m) \cup {k} |-> IF j = k THEN x ELSE c.m[j]]
        l2 == IF c.arr /\ IsIndexKey(k) THEN Max(c.len, DigitsToNat(k) + 1) ELSE c.len
    IN [h EXCEPT ![v.n] = [arr |-> c.arr, len |-> l2, m |-> m2]]

\* delete v[k] for an object v
DeleteProp(h, v, k) ==
    LET c == h[v.n]
    IN [h EXCEPT ![v.n] = [c EXCEPT !.m = [j \in (DOMAIN c.m) \ {k} |-> c.m[j]]]]

\* v.splice(i, 1) for an array v
Splice1(h, v, i) ==
    LET c == h[v.n]
        moved(j) == IF IsIndexKey(j) /\ DigitsToNat(j) >= i
                    THEN NatToStr(DigitsToNat(j) + 1) ELSE j
        dom == {j \in DOMAIN c.m : ~IsIndexKey(j) \/ DigitsToNat(j) < i}
               \cup {NatToStr(DigitsToNat(j) - 1) :
                       j \in {x \in DOMAIN c.m : IsIndexKey(x) /\ DigitsToNat(x) > i}}
    IN IF i >= c.len THEN h
       ELSE [h EXCEPT ![v.n] =
               [arr |-> TRUE, len |-> c.len - 1,
                m |-> [j \in dom |-> c.m[moved(j)]]]]

\* v.push(x) for an array v
Push(h, v, x) == SetProp(h, v, NatToStr(h[v.n].len), x)

\* The element at position i of an array, undefined for a hole
Elem(h, v, i) == GetProp(h, v, NatToStr(i))

(***************************************************************************)
(* Loose equality (the == of item[token.key] == token.value)               *)
(***************************************************************************)
NaN == [nan |-> TRUE, n |-> 0]
Number(i) == [nan |-> FALSE, n |-> i]

\* Number(s) for a string s
StrToNumber(s) ==
    IF s = <<>> THEN Number(0)
    ELSE IF IsDigits(s) THEN Number(DigitsToNat(s))
    ELSE NaN

ObjectObject ==
    <<"[","o","b","j","e","c","t"," ","O","b","j","e","c","t","]">>

\* String(v); an array is the join of its elements' strings
RECURSIVE ToStr(_, _)
RECURSIVE JoinFrom(_, _, _)
JoinFrom(h, v, i) ==
    IF i >= h[v.n].len THEN <<>>
    ELSE LET e == Elem(h, v, i)
             es == IF IsNullish(e) THEN <<>> ELSE ToStr(h, e)
         IN (IF i > 0 THEN <<",">> ELSE <<>>) \o es \o JoinFrom(h, v, i + 1)

ToStr(h, v) ==
    CASE v.t = "string" -> v.s
      [] v.t = "number" -> NatToStr(v.n)
      [] v.t = "boolean" ->
           IF v.n = 1 THEN <<"t","r","u","e">> ELSE <<"f","a","l","s","e">>
      [] v.t = "null" -> <<"n","u","l","l">>
      [] v.t = "undefined" -> <<"u","n","d","e","f","i","n","e","d">>
      [] v.t = "ref" -> IF h[v.n].arr THEN JoinFrom(h, v, 0) ELSE ObjectObject

\* a == b, for b a number or a string (the value of a filter token)
LooseEq(h, a, b) ==
    LET num(x) == IF x.t = "string" THEN StrToNumber(x.s) ELSE Number(x.n)
        numEq(x, y) == ~num(x).nan /\ ~num(y).nan /\ num(x).n = num(y).n
    IN CASE a.t \in {"undefined", "null"} -> FALSE
         [] a.t = "number" -> numEq(a, b)
         [] a.t = "boolean" -> numEq(a, b)
         [] a.t = "string" -> IF b.t = "string" THEN a.s = b.s ELSE numEq(a, b)
         [] a.t = "ref" ->
              IF b.t = "string" THEN ToStr(h, a) = b.s
              ELSE numEq(Str(ToStr(h, a)), b)

(***************************************************************************)
(* Path tokens and the path parser                                         *)
(***************************************************************************)
KeyToken(name) == [type |-> "key", key |-> name, val |-> Undefined]
IndexToken(i) == [type |-> "index", key |-> <<>>, val |-> Num(i)]
FilterToken(field, v) == [type |-> "filter", key |-> field, val |-> v]

\* The property key a token's value names in current[token.value]
TokenKey(t) == IF t.type = "key" THEN t.key ELSE NatToStr(t.val.n)

\* The end of the longest run of characters of cs that starts at i
RECURSIVE RunEnd(_, _, _)
RunEnd(path, i, cs) ==
    IF i <= Len(path) /\ path[i] \in cs THEN RunEnd(path, i + 1, cs) ELSE i

\* The first position from i on that holds c (Len + 1 when there is none)
RECURSIVE FindChar(_, _, _)
FindChar(path, i, c) ==
    IF i > Len(path) \/ path[i] = c THEN i ELSE FindChar(path, i + 1, c)

AllChars(path) == {path[i] : i \in 1..Len(path)}

\* The coercion of the text after the colon of a filter
FilterValue(val) ==
    IF ~StrToNumber(val).nan THEN Num(StrToNumber(val).n)
    ELSE IF \/ Head(val) = "'" /\ val[Len(val)] = "'"
            \/ Head(val) = "\"" /\ val[Len(val)] = "\""
         THEN Str(SubSeq(val, 2, Len(val) - 1))
         ELSE Str(val)

\* One PATH_REGEX.exec attempt anchored at position i:
\* [ok, next position, token]
MatchAt(path, i) ==
    LET c == path[i]
        none == [ok |-> FALSE, next |-> i + 1, token |-> KeyToken(<<>>)]
        keyEnd == RunEnd(path, i, AllChars(path) \ {".", "[", "]"})
        digEnd == RunEnd(path, i + 1, DigitChars)
        wordEnd == RunEnd(path, i + 1, WordChars)
        close == FindChar(path, wordEnd + 1, "]")
    IN IF c \notin {".", "[", "]"}
       THEN [ok |-> TRUE, next |-> keyEnd,
             token |-> KeyToken(SubSeq(path, i, keyEnd - 1))]
       ELSE IF c # "[" THEN none
       ELSE IF digEnd > i + 1 /\ digEnd <= Len(path) /\ path[digEnd] = "]"
       THEN [ok |-> TRUE, next |-> digEnd + 1,
             token |-> IndexToken(DigitsToNat(SubSeq(path, i + 1, digEnd - 1)))]
       ELSE IF /\ wordEnd > i + 1 /\ wordEnd <= Len(path) /\ path[wordEnd] = ":"
               /\ close > wordEnd + 1 /\ close <= Len(path)
       THEN [ok |-> TRUE, next |-> close + 1,
             token |-> FilterToken(SubSeq(path, i + 1, wordEnd - 1),
                                   FilterValue(SubSeq(path, wordEnd + 1, close - 1)))]
       ELSE none

RECURSIVE ParseFrom(_, _)
ParseFrom(path, i) ==
    IF i > Len(path) THEN <<>>
    ELSE LET r == MatchAt(path, i)
         IN (IF r.ok THEN <<r.token>> ELSE <<>>) \o ParseFrom(path, r.next)

parsePath(path) == ParseFrom(path, 1)

RECURSIVE ReconstructFrom(_, _)
ReconstructFrom(tokens, i) ==
    IF i > Len(tokens) THEN <<>>
    ELSE LET t == tokens[i]
             piece ==
               CASE t.type = "key" -> (IF i > 1 THEN <<".">> ELSE <<>>) \o t.key
                 [] t.type = "index" -> <<"[">> \o NatToStr(t.val.n) \o <<"]">>
                 [] t.type = "filter" ->
                      <<"[">> \o t.key \o <<":">>
                      \o (IF t.val.t = "string"
                          THEN <<"\"">> \o t.val.s \o <<"\"">>
                          ELSE NatToStr(t.val.n))
                      \o <<"]">>
         IN piece \o ReconstructFrom(tokens, i + 1)

reconstructPath(tokens) == ReconstructFrom(tokens, 1)

(***************************************************************************)
(* Array searches.  A search reads item[key] of every element up to the    *)
(* first match; reading a property of null or undefined (a hole included)  *)
(* throws unless the callback guards it with "item &&".                    *)
(***************************************************************************)
\* [idx |-> position of the first match or -1, threw]
RECURSIVE FindFrom(_, _, _, _, _, _)
FindItem(h, arr, key, val, guarded, i, item) ==
    IF IsNullish(item)
    THEN IF guarded THEN FindFrom(h, arr, key, val, guarded, i + 1)
         ELSE [idx |-> -1, threw |-> TRUE]
    ELSE IF (~guarded \/ ~Falsy(item)) /\ LooseEq(h, GetProp(h, item, key), val)
         THEN [idx |-> i, threw |-> FALSE]
         ELSE FindFrom(h, arr, key, val, guarded, i + 1)

FindFrom(h, arr, key, val, guarded, i) ==
    IF i >= h[arr.n].len THEN [idx |-> -1, threw |-> FALSE]
    ELSE FindItem(h, arr, key, val, guarded, i, Elem(h, arr, i))

\* current.findIndex(item => item[key] == val)
FindIndex(h, arr, key, val) == FindFrom(h, arr, key, val, FALSE, 0)

FoundItem(h, arr, r) ==
    [item |-> IF r.idx = -1 THEN Undefined ELSE Elem(h, arr, r.idx),
     threw |-> r.threw]

\* current.find(...): [item |-> the match or undefined, threw]
Find(h, arr, key, val, guarded) ==
    FoundItem(h, arr, FindFrom(h, arr, key, val, guarded, 0))

\* current.indexOf(x): strict equality, holes skipped
IndexOf(h, arr, x) ==
    LET hits == {i \in 0..(h[arr.n].len - 1) :
                   NatToStr(i) \in Keys(h, arr) /\ Elem(h, arr, i) = x}
    IN IF hits = {} THEN -1 ELSE CHOOSE i \in hits : \A j \in hits : i <= j

\* { [key]: val }, freshly allocated: [h, v]
Seed(h, key, val) ==
    [h |-> Append(h, [arr |-> FALSE, len |-> 0, m |-> (key :> val)]),
     v |-> Ref(Len(h) + 1)]

(***************************************************************************)
(* probe                                                                   *)
(***************************************************************************)
ProbeMiss(i) ==
    [exists |-> FALSE, value |-> Undefined, missingIndex |-> i - 1, threw |-> FALSE]

ProbeThrown ==
    [exists |-> FALSE, value |-> Undefined, missingIndex |-> -1, threw |-> TRUE]

\* tokens[i] is the code's tokens[i - 1]
RECURSIVE ProbeFrom(_, _, _, _)
ProbeFilter(h, tokens, i, f) ==
    IF f.threw THEN ProbeThrown
    ELSE IF Falsy(f.item) THEN ProbeMiss(i)
    ELSE ProbeFrom(h, f.item, tokens, i + 1)

ProbeToken(h, current, tokens, i, token) ==
    IF IsNullish(current) THEN ProbeMiss(i)
    ELSE IF token.type = "key"
    THEN IF ~IsRef(current) THEN ProbeThrown  \* "in" applied to a primitive
         ELSE IF token.key \notin Keys(h, current) THEN ProbeMiss(i)
         ELSE ProbeFrom(h, GetProp(h, current, token.key), tokens, i + 1)
    ELSE IF token.type = "index"
    THEN IF ~IsArray(h, current) THEN ProbeMiss(i)
         ELSE IF token.val.n >= h[current.n].len THEN ProbeMiss(i)
         ELSE ProbeFrom(h, Elem(h, current, token.val.n), tokens, i + 1)
    ELSE IF ~IsArray(h, current) THEN ProbeMiss(i)
         ELSE ProbeFilter(h, tokens, i, Find(h, current, token.key, token.val, FALSE))

ProbeFrom(h, current, tokens, i) ==
    IF i > Len(tokens)
    THEN [exists |-> TRUE, value |-> current, missingIndex |-> -1, threw |-> FALSE]
    ELSE ProbeToken(h, current, tokens, i, tokens[i])

probe(h, obj, tokens) == ProbeFrom(h, obj, tokens, 1)

(***************************************************************************)
(* cloneValue and deepEqual                                                *)
(***************************************************************************)
\* [h, v]: the heap with the copy allocated, and the copy
RECURSIVE cloneValue(_, _)
RECURSIVE CloneProps(_, _, _, _)
CloneCell(h, value, c) ==
    [h |-> CloneProps(Append(h, IF c.arr
                                THEN [arr |-> TRUE, len |-> c.len, m |-> EmptyProps]
                                ELSE NewObject),
                      value, Ref(Len(h) + 1),
                      IF c.arr THEN {k \in DOMAIN c.m : IsIndexKey(k)} ELSE DOMAIN c.m),
     v |-> Ref(Len(h) + 1)]

cloneValue(h, value) ==
    IF ~IsRef(value) THEN [h |-> h, v |-> value] ELSE CloneCell(h, value, h[value.n])

CloneProp(src, dst, ks, k, r) ==
    CloneProps(SetProp(r.h, dst, k, r.v), src, dst, ks \ {k})

CloneNext(h, src, dst, ks, k) ==
    CloneProp(src, dst, ks, k, cloneValue(h, h[src.n].m[k]))

CloneProps(h, src, dst, ks) ==
    IF ks = {} THEN h ELSE CloneNext(h, src, dst, ks, CHOOSE x \in ks : TRUE)

\* equality of primitives and of references only
SameValue(h, a, b) == a = b

RECURSIVE deepEqual(_, _, _)
deepEqual(h, a, b) ==
    IF a = b THEN TRUE
    ELSE IF IsNullish(a) \/ IsNullish(b) THEN FALSE
    ELSE IF ~TypeofObject(a) \/ ~TypeofObject(b) THEN FALSE
    ELSE /\ Cardinality(Keys(h, a)) = Cardinality(Keys(h, b))
         /\ \A k \in Keys(h, a) :
              k \in Keys(h, b) /\ deepEqual(h, h[a.n].m[k], h[b.n].m[k])

(***************************************************************************)
(* Operations                                                              *)
(***************************************************************************)
SetOp(path, value) == [op |-> "set", path |-> path, value |-> value, ops |-> <<>>]
DeleteOp(path) == [op |-> "delete", path |-> path, value |-> Undefined, ops |-> <<>>]
BatchOp(ops) == [op |-> "batch", path |-> <<>>, value |-> Undefined, ops |-> ops]

\* The key and index branches of resolveNext; cur is current[token.value]
ResolveProp(h, current, token, createIfMissing, k, cur) ==
    IF /\ createIfMissing
       /\ IF token.type = "key"
          THEN cur = Undefined \/ ~TypeofObject(cur)
          ELSE cur = Undefined
    THEN IF ~IsRef(current)
         THEN [h |-> h, v |-> Undefined, threw |-> TRUE]  \* a primitive's property
         ELSE [h |-> SetProp(Append(h, NewObject), current, k, Ref(Len(h) + 1)),
               v |-> Ref(Len(h) + 1), threw |-> FALSE]
    ELSE [h |-> h, v |-> cur, threw |-> FALSE]

ResolveSeed(h, current, sd) ==
    [h |-> Push(sd.h, current, sd.v), v |-> sd.v, threw |-> FALSE]

\* The filter branch of resolveNext; f is the result of current.find
ResolveFilter(h, current, token, createIfMissing, f) ==
    IF f.threw THEN [h |-> h, v |-> Undefined, threw |-> TRUE]
    ELSE IF Falsy(f.item) /\ createIfMissing
    THEN ResolveSeed(h, current, Seed(h, token.key, token.val))
    ELSE [h |-> h, v |-> f.item, threw |-> FALSE]

\* [h, v |-> the next node, threw]
resolveNext(h, current, token, createIfMissing) ==
    IF token.type \in {"key", "index"}
    THEN IF IsNullish(current) THEN [h |-> h, v |-> Undefined, threw |-> TRUE]
         ELSE ResolveProp(h, current, token, createIfMissing, TokenKey(token),
                          GetProp(h, current, TokenKey(token)))
    ELSE IF ~IsArray(h, current) THEN [h |-> h, v |-> Undefined, threw |-> FALSE]
         ELSE ResolveFilter(h, current, token, createIfMissing,
                            Find(h, current, token.key, token.val, FALSE))

\* The walk over all tokens but the last: [h, v, threw, stop]
RECURSIVE Walk(_, _, _, _, _)
WalkStep(tokens, i, create, r) ==
    IF r.threw THEN [h |-> r.h, v |-> r.v, threw |-> TRUE, stop |-> FALSE]
    ELSE IF ~create /\ Falsy(r.v)
    THEN [h |-> r.h, v |-> r.v, threw |-> FALSE, stop |-> TRUE]
    ELSE Walk(r.h, r.v, tokens, i + 1, create)

Walk(h, current, tokens, i, create) ==
    IF i > Len(tokens) - 1
    THEN [h |-> h, v |-> current, threw |-> FALSE, stop |-> FALSE]
    ELSE WalkStep(tokens, i, create, resolveNext(h, current, tokens[i], create))

\* The own enumerable properties a spread {...v} copies
SpreadProps(h, v) ==
    IF IsRef(v) THEN h[v.n].m
    ELSE IF v.t = "string"
    THEN [k \in {NatToStr(i - 1) : i \in 1..Len(v.s)} |-> Str(<<v.s[DigitsToNat(k) + 1]>>)]
    ELSE EmptyProps

MergeProps(a, b) ==
    [k \in (DOMAIN a) \cup (DOMAIN b) |-> IF k \in DOMAIN b THEN b[k] ELSE a[k]]

AssignTo(h, target, c, src) ==
    [h EXCEPT ![target.n] =
       [arr |-> c.arr,
        len |-> IF c.arr
                THEN LET idx == {DigitsToNat(k) + 1 :
                                   k \in {x \in DOMAIN src : IsIndexKey(x)}} \cup {c.len}
                     IN CHOOSE x \in idx : \A y \in idx : x >= y
                ELSE c.len,
        m |-> MergeProps(c.m, src)]]

\* Object.assign(target, source) for an object target
ObjectAssign(h, target, source) ==
    AssignTo(h, target, h[target.n], SpreadProps(h, source))

\* current[idx] = { ...found, ...value }
ReplaceMerged(h, current, found, value) ==
    SetProp(Append(h, [arr |-> FALSE, len |-> 0,
                       m |-> MergeProps(SpreadProps(h, found), SpreadProps(h, value))]),
            current, NatToStr(IndexOf(h, current, found)), Ref(Len(h) + 1))

\* The last token of a set, a filter, once the element is found or seeded
SetFound(h, current, found, value) ==
    IF TypeofObject(value) /\ ~IsArray(h, value)
    THEN [h |-> IF IsRef(found) THEN ObjectAssign(h, found, value) ELSE h,
          threw |-> FALSE]
    ELSE [h |-> ReplaceMerged(h, current, found, value), threw |-> FALSE]

SetSeeded(current, value, sd) ==
    SetFound(Push(sd.h, current, sd.v), current, sd.v, value)

SetFilter(h, current, lastToken, value, f) ==
    IF Falsy(f.item)
    THEN SetSeeded(current, value, Seed(h, lastToken.key, lastToken.val))
    ELSE SetFound(h, current, f.item, value)

\* The last token of a set: [h, threw]
SetLast(h, current, lastToken, value) ==
    IF lastToken.type \in {"key", "index"}
    THEN IF ~IsRef(current) THEN [h |-> h, threw |-> TRUE]
         ELSE [h |-> SetProp(h, current, TokenKey(lastToken), value), threw |-> FALSE]
    ELSE IF ~IsArray(h, current) THEN [h |-> h, threw |-> FALSE]
    ELSE SetFilter(h, current, lastToken, value,
                   Find(h, current, lastToken.key, lastToken.val, TRUE))

DeleteFound(h, current, f) ==
    IF f.threw THEN [h |-> h, threw |-> TRUE]
    ELSE IF f.idx # -1 THEN [h |-> Splice1(h, current, f.idx), threw |-> FALSE]
    ELSE [h |-> h, threw |-> FALSE]

\* The last token of a delete: [h, threw]
DeleteLast(h, current, lastToken) ==
    IF lastToken.type = "key"
    THEN IF IsRef(current)
         THEN [h |-> DeleteProp(h, current, lastToken.key), threw |-> FALSE]
         ELSE [h |-> h,
               threw |-> GetProp(h, current, lastToken.key) # Undefined]
    ELSE IF ~IsArray(h, current) THEN [h |-> h, threw |-> FALSE]
    ELSE IF lastToken.type = "index"
    THEN [h |-> Splice1(h, current, lastToken.val.n), threw |-> FALSE]
    ELSE DeleteFound(h, current, FindIndex(h, current, lastToken.key, lastToken.val))

ApplyLast(operation, tokens, w) ==
    IF w.threw THEN [h |-> w.h, threw |-> TRUE]
    ELSE IF w.stop THEN [h |-> w.h, threw |-> FALSE]
    ELSE IF Len(tokens) = 0 THEN [h |-> w.h, threw |-> TRUE]  \* lastToken is undefined
    ELSE IF operation.op = "set"
    THEN SetLast(w.h, w.v, tokens[Len(tokens)], operation.value)
    ELSE DeleteLast(w.h, w.v, tokens[Len(tokens)])

ApplyTokens(h, obj, operation, tokens) ==
    ApplyLast(operation, tokens, Walk(h, obj, tokens, 1, operation.op = "set"))

\* A set or a delete: [h, threw]
ApplySingle(h, obj, operation) ==
    ApplyTokens(h, obj, operation, parsePath(operation.path))

\* operation.ops.forEach(op => applyOperation(obj, op)); a throw ends it
RECURSIVE ApplyAll(_, _, _, _)
ApplyRest(obj, ops, i, r) ==
    IF r.threw THEN r ELSE ApplyAll(r.h, obj, ops, i + 1)

ApplyAll(h, obj, ops, i) ==
    IF i > Len(ops) THEN [h |-> h, threw |-> FALSE]
    ELSE ApplyRest(obj, ops, i, ApplySingle(h, obj, ops[i]))

\* [h, threw]
applyOperation(h, obj, operation) ==
    IF operation.op = "batch" THEN ApplyAll(h, obj, operation.ops, 1)
    ELSE ApplySingle(h, obj, operation)

(***************************************************************************)
(* Values as the caller writes them: a literal is a value with the cells   *)
(* it is made of, numbered from 1; passing it allocates fresh cells.       *)
(***************************************************************************)
Shift(v, off) == IF IsRef(v) THEN Ref(v.n + off) ELSE v

Alloc(h, lit) ==
    [h |-> h \o [i \in 1..Len(lit.h) |->
                   [arr |-> lit.h[i].arr, len |-> lit.h[i].len,
                    m |-> [k \in DOMAIN lit.h[i].m |-> Shift(lit.h[i].m[k], Len(h))]]],
     v |-> Shift(lit.v, Len(h))]

Scalar(v) == [h |-> <<>>, v |-> v]
Object(props) == [h |-> <<[arr |-> FALSE, len |-> 0, m |-> props]>>, v |-> Ref(1)]

(***************************************************************************)
(* The tree as a value: one node per path of property keys, with the       *)
(* node's type, its scalar value and, for an array, its length.  Two trees *)
(* are deep-equal exactly when they have the same nodes.                   *)
(***************************************************************************)
RECURSIVE Nodes(_, _, _)
Nodes(h, v, p) ==
    IF ~IsRef(v) THEN {[p |-> p, t |-> v.t, s |-> v.s, n |-> v.n]}
    ELSE {[p |-> p, t |-> IF h[v.n].arr THEN "array" ELSE "object",
           s |-> <<>>, n |-> h[v.n].len]}
         \cup UNION {Nodes(h, h[v.n].m[k], Append(p, k)) : k \in DOMAIN h[v.n].m}

Snapshot(h, v) == Nodes(h, v, <<>>)

(***************************************************************************)
(* The store                                                               *)
(***************************************************************************)
VARIABLES
    heap,           \* the objects of the program
    state,          \* this.state
    undoStack,      \* this.undoStack
    redoStack,      \* this.redoStack
    maxHistory,     \* this.maxHistory
    historyDirty,   \* this.historyDirty
    cachedHistory,  \* this.cachedHistory
    notifications,  \* the number of notify() calls made
    listeners,      \* this.listeners
    heard,          \* what the listeners were called with, in order
    storage,        \* this.storage is set
    storageKey,     \* this.storageKey
    adapter,        \* the storage adapter: what it holds and how it behaves
    calls,          \* the calls made so far, each with its result
    phase           \* what the caller is doing: [name, start]

vars == <<heap, state, undoStack, redoStack, maxHistory, historyDirty,
          cachedHistory, notifications, listeners, heard, storage, storageKey,
          adapter, calls, phase>>

DefaultMaxHistory == 100

\* constructor: options.maxHistory || 100 (0 stands for "not supplied" too)
Construct(option) == IF option = 0 THEN DefaultMaxHistory ELSE option

NoHistory == [defined |-> FALSE, undo |-> 0, redo |-> 0,
              canUndo |-> FALSE, canRedo |-> FALSE]

HistoryOf(us, rs) ==
    [defined |-> TRUE, undo |-> Len(us), redo |-> Len(rs),
     canUndo |-> Len(us) > 0, canRedo |-> Len(rs) > 0]

Reverse(seq) == [i \in 1..Len(seq) |-> seq[Len(seq) + 1 - i]]

Front(seq) == SubSeq(seq, 1, Len(seq) - 1)
Last(seq) == seq[Len(seq)]

\* push with no limit on the length of the stack
PushUnbounded(stack, entry, max) == Append(stack, entry)

\* push that makes room by dropping the newest entry of the stack
PushOverTop(stack, entry, max) ==
    IF Len(stack) + 1 > max
    THEN Append(SubSeq(stack, 1, Len(stack) - 1), entry)
    ELSE Append(stack, entry)

\* push, then shift when the stack is longer than maxHistory
PushBounded(stack, entry, max) ==
    LET pushed == Append(stack, entry)
    IN IF Len(pushed) > max THEN Tail(pushed) ELSE pushed

SynthesizeSet(path, c) == [h |-> c.h, op |-> SetOp(path, c.v)]

\* an undo that deletes the target itself, leaving created containers behind
SynthesizeUndoAtTarget(h, path, tokens, probeResult) ==
    IF probeResult.missingIndex # -1
    THEN [h |-> h, op |-> DeleteOp(path)]
    ELSE SynthesizeSet(path, cloneValue(h, probeResult.value))

\* The undo operation set() synthesizes: [h, op]
SynthesizeUndo(h, path, tokens, probeResult) ==
    IF probeResult.missingIndex # -1
    THEN [h |-> h,
          op |-> DeleteOp(reconstructPath(SubSeq(tokens, 1, probeResult.missingIndex + 1)))]
    ELSE SynthesizeSet(path, cloneValue(h, probeResult.value))

NoOp == DeleteOp(<<>>)

SetApplied(undoOp, redoOp, r) ==
    IF r.threw
    THEN [kind |-> "throw", h |-> r.h, undoOp |-> NoOp, redoOp |-> NoOp]
    ELSE [kind |-> "ok", h |-> r.h, undoOp |-> undoOp, redoOp |-> redoOp]

SetSynthesized(st, path, value, u) ==
    SetApplied(u.op, SetOp(path, value), applyOperation(u.h, st, SetOp(path, value)))

\* set() without the early return on an equal value
SetProbedAlways(h, st, path, value, tokens, probeResult) ==
    IF probeResult.threw
    THEN [kind |-> "throw", h |-> h, undoOp |-> NoOp, redoOp |-> NoOp]
    ELSE SetSynthesized(st, path, value, SynthesizeUndo(h, path, tokens, probeResult))

SetProbed(h, st, path, value, tokens, probeResult) ==
    IF probeResult.threw
    THEN [kind |-> "throw", h |-> h, undoOp |-> NoOp, redoOp |-> NoOp]
    ELSE IF probeResult.exists /\ deepEqual(h, probeResult.value, value)
    THEN [kind |-> "skip", h |-> h, undoOp |-> NoOp, redoOp |-> NoOp]
    ELSE SetSynthesized(st, path, value, SynthesizeUndo(h, path, tokens, probeResult))

SetTokens(h, st, path, value, tokens) ==
    SetProbed(h, st, path, value, tokens, probe(h, st, tokens))

\* set(path, value, internal) up to the push:
\* [kind |-> "skip" | "throw" | "ok", h, undoOp, redoOp]
SetCore(h, st, path, value) == SetTokens(h, st, path, value, parsePath(path))

\* The callback of batch(): the calls of the context's set, in order:
\* [h, undoOps, redoOps, threw]
RECURSIVE BatchRun(_, _, _, _, _, _)
BatchStep(h, st, items, i, undoOps, redoOps, r) ==
    IF r.kind = "throw"
    THEN [h |-> r.h, undoOps |-> undoOps, redoOps |-> redoOps, threw |-> TRUE]
    ELSE IF r.kind = "skip"
    THEN BatchRun(h, st, items, i + 1, undoOps, redoOps)
    ELSE BatchRun(r.h, st, items, i + 1,
                  Append(undoOps, r.undoOp), Append(redoOps, r.redoOp))

BatchSet(h, st, items, i, undoOps, redoOps, a) ==
    BatchStep(h, st, items, i, undoOps, redoOps, SetCore(a.h, st, items[i].path, a.v))

BatchRun(h, st, items, i, undoOps, redoOps) ==
    IF i > Len(items)
    THEN [h |-> h, undoOps |-> undoOps, redoOps |-> redoOps, threw |-> FALSE]
    ELSE BatchSet(h, st, items, i, undoOps, redoOps, Alloc(h, items[i].lit))

\* The history entry batch() pushes
\* batch() recording the collected undo operations without reversing them
BatchEntryForward(undoOps, redoOps) ==
    [undo |-> BatchOp(undoOps), redo |-> BatchOp(redoOps)]

BatchEntry(undoOps, redoOps) ==
    [undo |-> BatchOp(Reverse(undoOps)), redo |-> BatchOp(redoOps)]

\* JSON.stringify(value) as the value the text denotes: a node
\* [t, s, n, m] with the members m of a map or a sequence and the length n of
\* a sequence.  A member that is undefined is left out of a map and is null
\* in a sequence; what is shared is written once per place.
JsonNull == [t |-> "null", s |-> <<>>, n |-> 0, m |-> EmptyProps]

InArray(node) == IF node.t = "undefined" THEN JsonNull ELSE node

RECURSIVE Stringify(_, _)
Stringify(h, v) ==
    IF ~IsRef(v) THEN [t |-> v.t, s |-> v.s, n |-> v.n, m |-> EmptyProps]
    ELSE IF h[v.n].arr
    THEN [t |-> "array", s |-> <<>>, n |-> h[v.n].len,
          m |-> [k \in {NatToStr(i) : i \in 0..(h[v.n].len - 1)} |->
                   InArray(Stringify(h, GetProp(h, v, k)))]]
    ELSE [t |-> "object", s |-> <<>>, n |-> 0,
          m |-> [k \in {j \in Keys(h, v) : h[v.n].m[j] # Undefined} |->
                   Stringify(h, h[v.n].m[k])]]

RECURSIVE StringifyOp(_, _)
StringifyOp(h, op) ==
    [op |-> op.op, path |-> op.path, value |-> Stringify(h, op.value),
     ops |-> [i \in 1..Len(op.ops) |-> StringifyOp(h, op.ops[i])]]

StringifyStack(h, stack) ==
    [i \in 1..Len(stack) |->
       [undo |-> StringifyOp(h, stack[i].undo), redo |-> StringifyOp(h, stack[i].redo)]]

\* JSON.stringify({ state, undoStack, redoStack })
Serialize(h, st, us, rs) ==
    [kind |-> "data", state |-> Stringify(h, st),
     undoStack |-> StringifyStack(h, us), redoStack |-> StringifyStack(h, rs)]

\* What getItem returns for a key never written, and a text JSON.parse rejects
NoText == [kind |-> "none", state |-> JsonNull, undoStack |-> <<>>, redoStack |-> <<>>]
Garbage == [kind |-> "garbage", state |-> JsonNull, undoStack |-> <<>>, redoStack |-> <<>>]

\* JSON.parse of a node: the value as a literal [h, v] of fresh objects,
\* the node's own object first
RECURSIVE JsonParse(_)
RECURSIVE ParseProps(_, _, _)
ParseProp(node, ks, k, a) ==
    ParseProps(node, ks \ {k}, SetProp(a.h, Ref(1), k, a.v))

ParseNext(node, ks, h, k) == ParseProp(node, ks, k, Alloc(h, JsonParse(node.m[k])))

ParseProps(node, ks, h) ==
    IF ks = {} THEN [h |-> h, v |-> Ref(1)]
    ELSE ParseNext(node, ks, h, CHOOSE x \in ks : TRUE)

ParseCell(node) ==
    ParseProps(node, DOMAIN node.m,
               <<[arr |-> node.t = "array", len |-> node.n, m |-> EmptyProps]>>)

JsonParse(node) ==
    IF node.t \in {"array", "object"} THEN ParseCell(node)
    ELSE Scalar([t |-> node.t, s |-> node.s, n |-> node.n])

\* The heap h followed by the objects of a literal, and an operation and an
\* entry whose objects come off cells later
Added(h, cells) == Alloc(h, [h |-> cells, v |-> Undefined]).h

RECURSIVE ShiftOp(_, _)
ShiftOp(op, off) ==
    [op |-> op.op, path |-> op.path, value |-> Shift(op.value, off),
     ops |-> [i \in 1..Len(op.ops) |-> ShiftOp(op.ops[i], off)]]

ShiftEntry(e, off) == [undo |-> ShiftOp(e.undo, off), redo |-> ShiftOp(e.redo, off)]

\* The parsed operations and entries, each with the objects it is made of:
\* [h, op], [h, seq] and [h, entry]
RECURSIVE ParseOp(_)
RECURSIVE ParseOps(_, _)
ParsedOp(text, v, sub) ==
    [op |-> text.op, path |-> text.path, value |-> v, ops |-> sub]

ParseOpWith(text, a, sub) ==
    [h |-> Added(a.h, sub.h),
     op |-> ParsedOp(text, a.v,
                     [i \in 1..Len(sub.seq) |-> ShiftOp(sub.seq[i], Len(a.h))])]

ParseOp(text) ==
    ParseOpWith(text, JsonParse(text.value), ParseOps(text.ops, Len(text.ops)))

ParseOpsAdd(r, b) ==
    [h |-> Added(r.h, b.h), seq |-> Append(r.seq, ShiftOp(b.op, Len(r.h)))]

ParseOps(texts, i) ==
    IF i = 0 THEN [h |-> <<>>, seq |-> <<>>]
    ELSE ParseOpsAdd(ParseOps(texts, i - 1), ParseOp(texts[i]))

ParseEntryWith(u, r) ==
    [h |-> Added(u.h, r.h),
     entry |-> [undo |-> u.op, redo |-> ShiftOp(r.op, Len(u.h))]]

ParseEntry(text) == ParseEntryWith(ParseOp(text.undo), ParseOp(text.redo))

RECURSIVE ParseStack(_, _)
ParseStackAdd(r, e) ==
    [h |-> Added(r.h, e.h), seq |-> Append(r.seq, ShiftEntry(e.entry, Len(r.h)))]

ParseStack(texts, i) ==
    IF i = 0 THEN [h |-> <<>>, seq |-> <<>>]
    ELSE ParseStackAdd(ParseStack(texts, i - 1), ParseEntry(texts[i]))

\* JSON.parse(raw): [h, state, undoStack, redoStack]
Parsed(s, u, r) ==
    [h |-> Added(Added(s.h, u.h), r.h), state |-> s.v,
     undoStack |-> [i \in 1..Len(u.seq) |-> ShiftEntry(u.seq[i], Len(s.h))],
     redoStack |-> [i \in 1..Len(r.seq) |->
                      ShiftEntry(r.seq[i], Len(s.h) + Len(u.h))]]

Parse(h, text) ==
    Parsed(Alloc(h, JsonParse(text.state)),
           ParseStack(text.undoStack, Len(text.undoStack)),
           ParseStack(text.redoStack, Len(text.redoStack)))

\* The storage adapter: what it holds under each key, whether getItem and
\* setItem return or throw, and the number of setItem calls made
DefaultKey == "doit-state"

StorageKeys == {DefaultKey, "k"}

EmptyStorage ==
    [items |-> [k \in StorageKeys |-> NoText], reads |-> TRUE, writes |-> TRUE, puts |-> 0]

\* setItem(storageKey, text)
SetItem(to, key, text) ==
    IF to.writes
    THEN [to EXCEPT !.items[key] = text, !.puts = @ + 1]
    ELSE [to EXCEPT !.puts = @ + 1]

\* a save that does not ask whether persistence is enabled
SaveAlways(us, rs) ==
    adapter' = SetItem(adapter, storageKey', Serialize(heap', state', us, rs))

\* saveToStorage(), at the end of a call that leaves the stacks us and rs
SaveToStorage(us, rs) ==
    IF ~storage' THEN UNCHANGED adapter
    ELSE adapter' = SetItem(adapter, storageKey', Serialize(heap', state', us, rs))

\* notify(): the history cache is refreshed, the listeners are called
\* What listener l is called with: the tree and the history
Heard(l, h, st, history) ==
    [listener |-> l, tree |-> Snapshot(h, st), history |-> history]

\* notify() calling the listeners last to first
NotifyBackwards(us, rs) ==
    /\ historyDirty' = FALSE
    /\ cachedHistory' = HistoryOf(us, rs)
    /\ notifications' = notifications + 1
    /\ heard' = heard \o [i \in 1..Len(listeners') |->
                            Heard(listeners'[Len(listeners') + 1 - i], heap', state',
                                  HistoryOf(us, rs))]
    /\ SaveToStorage(us, rs)

\* notify(), at the end of a call that leaves the stacks us and rs
Notify(us, rs) ==
    /\ historyDirty' = FALSE
    /\ cachedHistory' = HistoryOf(us, rs)
    /\ notifications' = notifications + 1
    /\ heard' = heard \o [i \in 1..Len(listeners') |->
                            Heard(listeners'[i], heap', state', HistoryOf(us, rs))]
    /\ SaveToStorage(us, rs)

NoNotify == UNCHANGED <<historyDirty, cachedHistory, notifications, heard, adapter>>

\* The record of a call: what was called, what it returned, and the tree,
\* the value at the path and the stack lengths it found
Was(probeResult) ==
    IF probeResult.exists THEN Snapshot(heap, probeResult.value) ELSE {}

Call(op, path, lit, items, ret, subs) ==
    [op |-> op, path |-> path, lit |-> lit, items |-> items, ret |-> ret,
     subs |-> subs, before |-> Snapshot(heap, state),
     was |-> Was(probe(heap, state, parsePath(path))),
     undoLen |-> Len(undoStack), redoLen |-> Len(redoStack)]

NoLit == Scalar(Undefined)

\* a push that leaves the redo stack as it is
PushEntryKeepRedo(entry) ==
    /\ undoStack' = PushBounded(undoStack, entry, maxHistory)
    /\ UNCHANGED redoStack
    /\ Notify(PushBounded(undoStack, entry, maxHistory), redoStack)

\* The push of set() and of batch(): the stacks after it, and the notification
PushEntry(entry) ==
    /\ undoStack' = PushBounded(undoStack, entry, maxHistory)
    /\ redoStack' = <<>>
    /\ Notify(PushBounded(undoStack, entry, maxHistory), <<>>)

SetDone(path, lit, r) ==
    /\ calls' = Append(calls, Call("set", path, lit, <<>>, r.kind, <<>>))
    /\ UNCHANGED <<state, maxHistory, listeners, storage, storageKey>>
    /\ IF r.kind = "skip"
       THEN UNCHANGED <<heap, undoStack, redoStack>> /\ NoNotify
       ELSE IF r.kind = "throw"
       THEN /\ heap' = r.h
            /\ UNCHANGED <<undoStack, redoStack>>
            /\ NoNotify
       ELSE /\ heap' = r.h
            /\ PushEntry([undo |-> r.undoOp, redo |-> r.redoOp])

SetAlloc(path, lit, a) == SetDone(path, lit, SetCore(a.h, state, path, a.v))

\* set(path, value)
Set(path, lit) == SetAlloc(path, lit, Alloc(heap, lit))

\* batch() without the early return on an empty list of operations
BatchRetAlways(b) == IF b.threw THEN "throw" ELSE "ok"

BatchRet(b) == IF b.threw THEN "throw" ELSE IF Len(b.undoOps) = 0 THEN "skip" ELSE "ok"

BatchDone(items, b) ==
    /\ calls' = Append(calls,
                       Call("batch", <<>>, NoLit, items, BatchRet(b),
                            [i \in 1..Len(b.undoOps) |->
                               [undo |-> b.undoOps[i], redo |-> b.redoOps[i]]]))
    /\ UNCHANGED <<state, maxHistory, listeners, storage, storageKey>>
    /\ heap' = b.h
    /\ IF BatchRet(b) = "ok"
       THEN PushEntry(BatchEntry(b.undoOps, b.redoOps))
       ELSE UNCHANGED <<undoStack, redoStack>> /\ NoNotify

\* batch(callback)
Batch(items) == BatchDone(items, BatchRun(heap, state, items, 1, <<>>, <<>>))

\* an undo that puts the entry under the redo stack
UndoDoneUnder(entry, r) ==
    /\ calls' = Append(calls, Call("undo", <<>>, NoLit, <<>>,
                                   IF r.threw THEN "throw" ELSE "true", <<>>))
    /\ heap' = r.h
    /\ undoStack' = Front(undoStack)
    /\ IF r.threw
       THEN UNCHANGED redoStack /\ NoNotify
       ELSE /\ redoStack' = <<entry>> \o redoStack
            /\ Notify(Front(undoStack), <<entry>> \o redoStack)

UndoDone(entry, r) ==
    /\ calls' = Append(calls, Call("undo", <<>>, NoLit, <<>>,
                                   IF r.threw THEN "throw" ELSE "true", <<>>))
    /\ heap' = r.h
    /\ undoStack' = Front(undoStack)
    /\ IF r.threw
       THEN UNCHANGED redoStack /\ NoNotify
       ELSE /\ redoStack' = Append(redoStack, entry)
            /\ Notify(Front(undoStack), Append(redoStack, entry))

\* undo()
Undo ==
    /\ UNCHANGED <<state, maxHistory, listeners, storage, storageKey>>
    /\ IF undoStack = <<>>
       THEN /\ calls' = Append(calls, Call("undo", <<>>, NoLit, <<>>, "false", <<>>))
            /\ UNCHANGED <<heap, undoStack, redoStack>>
            /\ NoNotify
       ELSE UndoDone(Last(undoStack),
                     applyOperation(heap, state, Last(undoStack).undo))

RedoDone(entry, r) ==
    /\ calls' = Append(calls, Call("redo", <<>>, NoLit, <<>>,
                                   IF r.threw THEN "throw" ELSE "true", <<>>))
    /\ heap' = r.h
    /\ redoStack' = Front(redoStack)
    /\ IF r.threw
       THEN UNCHANGED undoStack /\ NoNotify
       ELSE /\ undoStack' = Append(undoStack, entry)
            /\ Notify(Append(undoStack, entry), Front(redoStack))

\* redo()
Redo ==
    /\ UNCHANGED <<state, maxHistory, listeners, storage, storageKey>>
    /\ IF redoStack = <<>>
       THEN /\ calls' = Append(calls, Call("redo", <<>>, NoLit, <<>>, "false", <<>>))
            /\ UNCHANGED <<heap, undoStack, redoStack>>
            /\ NoNotify
       ELSE RedoDone(Last(redoStack),
                     applyOperation(heap, state, Last(redoStack).redo))

\* getHistory()
GetHistory ==
    /\ calls' = Append(calls, Call("getHistory", <<>>, NoLit, <<>>, "ok", <<>>))
    /\ IF historyDirty
       THEN /\ cachedHistory' = HistoryOf(undoStack, redoStack)
            /\ historyDirty' = FALSE
       ELSE UNCHANGED <<cachedHistory, historyDirty>>
    /\ UNCHANGED <<heap, state, undoStack, redoStack, maxHistory, listeners,
                   notifications, heard, storage, storageKey, adapter>>

\* subscribe(fn)
Subscribe(fn) ==
    /\ calls' = Append(calls, Call("subscribe", <<>>, Scalar(Num(fn)), <<>>, "ok", <<>>))
    /\ listeners' = Append(listeners, fn)
    /\ UNCHANGED <<heap, state, undoStack, redoStack, maxHistory, storage, storageKey>>
    /\ NoNotify

Subscribed(fn) ==
    \E i \in 1..Len(calls) : calls[i].op = "subscribe" /\ calls[i].lit = Scalar(Num(fn))

Differs(l, fn) == l # fn

\* the function subscribe(fn) returned
Unsubscribe(fn) ==
    /\ Subscribed(fn)
    /\ calls' = Append(calls, Call("unsubscribe", <<>>, Scalar(Num(fn)), <<>>, "ok", <<>>))
    /\ listeners' = SelectSeq(listeners, LAMBDA l : Differs(l, fn))
    /\ UNCHANGED <<heap, state, undoStack, redoStack, maxHistory, storage, storageKey>>
    /\ NoNotify

\* a clearHistory that forgets the redo stack
ClearUndoOnly ==
    /\ calls' = Append(calls, Call("clearHistory", <<>>, NoLit, <<>>, "ok", <<>>))
    /\ undoStack' = <<>>
    /\ UNCHANGED redoStack
    /\ UNCHANGED <<heap, state, maxHistory, listeners, storage, storageKey>>
    /\ Notify(<<>>, redoStack)

\* clearHistory()
ClearHistory ==
    /\ calls' = Append(calls, Call("clearHistory", <<>>, NoLit, <<>>, "ok", <<>>))
    /\ undoStack' = <<>>
    /\ redoStack' = <<>>
    /\ UNCHANGED <<heap, state, maxHistory, listeners, storage, storageKey>>
    /\ Notify(<<>>, <<>>)

\* a failed load that empties the stacks
LoadReset(h, st) ==
    /\ heap' = h
    /\ state' = st
    /\ undoStack' = <<>>
    /\ redoStack' = <<>>
    /\ NoNotify

\* loadFromStorage() returning early, or catching what getItem or JSON.parse
\* throws: the store of heap h and tree st stays as it is
LoadNothing(h, st) ==
    /\ heap' = h
    /\ state' = st
    /\ UNCHANGED <<undoStack, redoStack>>
    /\ NoNotify

\* loadFromStorage() with the parsed data d
LoadData(d, st) ==
    /\ heap' = d.h
    /\ state' = IF Falsy(d.state) THEN st ELSE d.state
    /\ undoStack' = d.undoStack
    /\ redoStack' = d.redoStack
    /\ Notify(d.undoStack, d.redoStack)

LoadText(h, st, raw) ==
    IF raw.kind = "none" THEN LoadNothing(h, st)
    ELSE IF raw.kind = "garbage" THEN LoadNothing(h, st)
    ELSE \E d \in {Parse(h, raw)} : LoadData(d, st)

\* loadFromStorage() of a store of heap h and tree st
LoadFromStorage(h, st) ==
    IF ~adapter.reads THEN LoadNothing(h, st)
    ELSE LoadText(h, st, adapter.items[storageKey'])

\* options.key || 'doit-state'
KeyOption(key) == IF key = "" THEN DefaultKey ELSE key

\* persist({ to: adapter, key })
Persist(key) ==
    /\ calls' = Append(calls, Call("persist", <<>>, NoLit, <<>>, "ok", <<>>))
    /\ storage' = TRUE
    /\ storageKey' = KeyOption(key)
    /\ UNCHANGED <<maxHistory, listeners>>
    /\ LoadFromStorage(heap, state)

\* unpersist()
Unpersist ==
    /\ calls' = Append(calls, Call("unpersist", <<>>, NoLit, <<>>, "ok", <<>>))
    /\ storage' = FALSE
    /\ UNCHANGED <<heap, state, undoStack, redoStack, maxHistory, listeners, storageKey>>
    /\ NoNotify

\* new DoIt(tree, { maxHistory: option }) followed by persist on the new store
Constructed(option, key, a) ==
    /\ calls' = Append(calls, Call("reopen", <<>>, NoLit, <<>>, "ok", <<>>))
    /\ maxHistory' = Construct(option)
    /\ listeners' = <<>>
    /\ storage' = TRUE
    /\ storageKey' = KeyOption(key)
    /\ IF adapter.reads /\ adapter.items[KeyOption(key)].kind = "data"
       THEN \E d \in {Parse(a.h, adapter.items[KeyOption(key)])} : LoadData(d, a.v)
       ELSE /\ heap' = a.h
            /\ state' = a.v
            /\ undoStack' = <<>>
            /\ redoStack' = <<>>
            /\ historyDirty' = TRUE
            /\ cachedHistory' = NoHistory
            /\ UNCHANGED <<notifications, heard, adapter>>

Reopen(tree, option, key) ==
    \E a \in {Alloc(heap, tree)} : Constructed(option, key, a)

\* The exported functions called on the tree directly
DeleteApplied(path, r) ==
    /\ calls' = Append(calls, Call("delete", path, NoLit, <<>>,
                                   IF r.threw THEN "throw" ELSE "ok", <<>>))
    /\ heap' = r.h
    /\ UNCHANGED <<state, undoStack, redoStack, maxHistory, listeners,
                   storage, storageKey>>
    /\ NoNotify

\* applyOperation(tree, { op: 'delete', path })
ApplyDelete(path) == DeleteApplied(path, applyOperation(heap, state, DeleteOp(path)))

Probed(path, r) ==
    /\ calls' = Append(calls, Call("probe", path, NoLit, <<>>,
                                   IF r.threw THEN "throw"
                                   ELSE IF r.exists THEN "true" ELSE "false", <<>>))
    /\ UNCHANGED <<heap, state, undoStack, redoStack, maxHistory, listeners,
                   storage, storageKey>>
    /\ NoNotify

\* probe(tree, parsePath(path))
Probe(path) == Probed(path, probe(heap, state, parsePath(path)))

(***************************************************************************)
(* The store in use: an initial tree and the calls made on it              *)
(***************************************************************************)
K_id == <<"i", "d">>

\* { u: {}, c: 5, z: null, l: [ { id: 1, t: "x" } ] }
Tree0 ==
    [h |-> << [arr |-> FALSE, len |-> 0,
               m |-> (<<"u">> :> Ref(2)) @@ (<<"c">> :> Num(5))
                     @@ (<<"z">> :> Null) @@ (<<"l">> :> Ref(3))],
              NewObject,
              [arr |-> TRUE, len |-> 1, m |-> (<<"0">> :> Ref(4))],
              [arr |-> FALSE, len |-> 0,
               m |-> (K_id :> Num(1)) @@ (<<"t">> :> Str(<<"x">>))] >>,
     v |-> Ref(1)]

P_upa == <<"u", ".", "p", ".", "a">>  \* u.p.a
P_upb == <<"u", ".", "p", ".", "b">>  \* u.p.b
P_c == <<"c">>  \* c
P_u == <<"u">>  \* u
P_l2t == <<"l", "[", "i", "d", ":", "2", "]", ".", "t">>  \* l[id:2].t
P_l1 == <<"l", "[", "i", "d", ":", "1", "]">>  \* l[id:1]
P_li2 == <<"l", "[", "2", "]">>  \* l[2]
P_q0b == <<"q", "[", "0", "]", ".", "b">>  \* q[0].b

V_true == Scalar(Bool(TRUE))
V_5 == Scalar(Num(5))
V_7 == Scalar(Num(7))
V_8 == Scalar(Num(8))
V_y == Scalar(Str(<<"y">>))
V_empty == Object(EmptyProps)
\* { w: 1 }
V_w == Object(<<"w">> :> Num(1))
\* { id: 2 }
V_id2 == Object(K_id :> Num(2))
\* { p: { a: 1 } }
V_pa ==
    [h |-> << [arr |-> FALSE, len |-> 0, m |-> (<<"p">> :> Ref(2))],
              [arr |-> FALSE, len |-> 0, m |-> (<<"a">> :> Num(1))] >>,
     v |-> Ref(1)]

Item(path, lit) == [path |-> path, lit |-> lit]

\* The set(path, value) calls of Spec
Inputs ==
    { Item(P_upa, V_true), Item(P_c, V_5), Item(P_c, V_7),
      Item(P_l2t, V_y), Item(P_l1, V_w), Item(P_l1, V_id2),
      Item(P_li2, V_7), Item(P_q0b, V_7), Item(P_u, V_pa) }

\* The batch callbacks of Spec
Batches ==
    { <<Item(P_c, V_7), Item(P_c, V_8)>>,
      <<Item(P_upa, V_true), Item(P_upb, V_7)>>,
      <<Item(P_c, V_5), Item(P_u, V_empty)>>,
      <<Item(P_l2t, V_y), Item(P_l1, V_w)>>,
      <<>> }

MaxSteps == 3

\* The caller makes any calls ("run"), then calls undo() until it returns
\* false ("unwind"), then redo() until it returns false ("rewind");
\* start is the number of calls made before the unwinding, turn the number
\* of calls made before the rewinding
Running == [name |-> "run", start |-> 0, turn |-> 0]

InitOn(tree, option, to) ==
    /\ heap = Alloc(<<>>, tree).h
    /\ state = Alloc(<<>>, tree).v
    /\ undoStack = <<>>
    /\ redoStack = <<>>
    /\ maxHistory = Construct(option)
    /\ historyDirty = TRUE
    /\ cachedHistory = NoHistory
    /\ notifications = 0
    /\ listeners = <<>>
    /\ heard = <<>>
    /\ storage = FALSE
    /\ storageKey = DefaultKey
    /\ adapter = to
    /\ calls = <<>>
    /\ phase = Running

\* A store and a storage adapter that works and holds nothing
InitWith(tree, option) == InitOn(tree, option, EmptyStorage)

Init == InitWith(Tree0, 0)

More == phase.name = "run" /\ Len(calls) < MaxSteps

DoSet == More /\ UNCHANGED phase /\ \E i \in Inputs : Set(i.path, i.lit)
DoBatch == More /\ UNCHANGED phase /\ \E items \in Batches : Batch(items)
DoUndo == More /\ UNCHANGED phase /\ Undo
DoRedo == More /\ UNCHANGED phase /\ Redo
DoClearHistory == More /\ UNCHANGED phase /\ ClearHistory

Next == DoSet \/ DoBatch \/ DoUndo \/ DoRedo \/ DoClearHistory

Spec == Init /\ [][Next]_vars

\* The caller calls undo() until it returns false
Unwind ==
    /\ phase.name \in {"run", "unwind"}
    /\ calls # <<>>
    /\ Undo
    /\ phase' = [name |-> IF Last(calls').ret = "false" THEN "rewind" ELSE "unwind",
                 start |-> IF phase.name = "run" THEN Len(calls) ELSE phase.start,
                 turn |-> IF Last(calls').ret = "false" THEN Len(calls') ELSE 0]

\* and then redo() until it returns false
Rewind ==
    /\ phase.name = "rewind"
    /\ Redo
    /\ phase' = [phase EXCEPT !.name = IF Last(calls').ret = "false"
                                       THEN "done" ELSE "rewind"]

(***************************************************************************)
(* A store of maps and scalars addressed by Key tokens only                *)
(***************************************************************************)
\* { u: {}, c: 5, z: null }
TreeKeys ==
    [h |-> << [arr |-> FALSE, len |-> 0,
               m |-> (<<"u">> :> Ref(2)) @@ (<<"c">> :> Num(5))
                     @@ (<<"z">> :> Null)],
              NewObject >>,
     v |-> Ref(1)]

P_cb == <<"c", ".", "b">>  \* c.b

KeyInputs ==
    { Item(P_upa, V_true), Item(P_upa, V_8), Item(P_c, V_7),
      Item(P_u, V_pa), Item(P_cb, V_7) }

KeyBatches ==
    { <<Item(P_c, V_7), Item(P_c, V_8)>>,
      <<Item(P_u, V_pa), Item(P_upa, V_7)>> }

MaxKeySteps == 3

InitKeys == InitWith(TreeKeys, 0)

MoreKeys == phase.name = "run" /\ Len(calls) < MaxKeySteps

KeySet == MoreKeys /\ UNCHANGED phase /\ \E i \in KeyInputs : Set(i.path, i.lit)
KeyBatch == MoreKeys /\ UNCHANGED phase /\ \E items \in KeyBatches : Batch(items)
KeyUndo == MoreKeys /\ UNCHANGED phase /\ Undo
KeyRedo == MoreKeys /\ UNCHANGED phase /\ Redo

NextKeys == KeySet \/ KeyBatch \/ KeyUndo \/ KeyRedo \/ Unwind \/ Rewind

SpecKeys == InitKeys /\ [][NextKeys]_vars

(***************************************************************************)
(* A store with a small maxHistory                                         *)
(***************************************************************************)
CapOptions == {1, 2}

CapInputs == { Item(P_c, V_7), Item(P_c, V_8), Item(P_upa, V_true) }

CapBatches == { <<Item(P_c, V_7), Item(P_upb, V_7)>> }

MaxCapSteps == 3

InitCap == \E option \in CapOptions : InitWith(TreeKeys, option)

MoreCap == phase.name = "run" /\ Len(calls) < MaxCapSteps

CapSet == MoreCap /\ UNCHANGED phase /\ \E i \in CapInputs : Set(i.path, i.lit)
CapBatch == MoreCap /\ UNCHANGED phase /\ \E items \in CapBatches : Batch(items)
CapUndo == MoreCap /\ UNCHANGED phase /\ Undo
CapRedo == MoreCap /\ UNCHANGED phase /\ Redo
CapClearHistory == MoreCap /\ UNCHANGED phase /\ ClearHistory

NextCap == CapSet \/ CapBatch \/ CapUndo \/ CapRedo \/ CapClearHistory \/ Unwind

SpecCap == InitCap /\ [][NextCap]_vars

(***************************************************************************)
(* A store constructed with a supplied maxHistory, 0 included              *)
(***************************************************************************)
SuppliedOptions == {0, 1, 2}

InitSupplied == \E option \in SuppliedOptions : InitWith(TreeKeys, option)

SpecSupplied == InitSupplied /\ [][NextCap]_vars

(***************************************************************************)
(* A store whose paths do not fit its tree                                 *)
(***************************************************************************)
\* { c: 5, z: null, n: [ { id: 1 }, null ] }
TreeNulls ==
    [h |-> << [arr |-> FALSE, len |-> 0,
               m |-> (<<"c">> :> Num(5)) @@ (<<"z">> :> Null)
                     @@ (<<"n">> :> Ref(2))],
              [arr |-> TRUE, len |-> 2,
               m |-> (<<"0">> :> Ref(3)) @@ (<<"1">> :> Null)],
              [arr |-> FALSE, len |-> 0, m |-> (K_id :> Num(1))] >>,
     v |-> Ref(1)]

P_empty == <<>>  \* the empty path
P_zb == <<"z", ".", "b">>  \* z.b
P_c1 == <<"c", "[", "i", "d", ":", "1", "]">>  \* c[id:1]
P_c1t == <<"c", "[", "i", "d", ":", "1", "]", ".", "t">>  \* c[id:1].t
P_n1t == <<"n", "[", "i", "d", ":", "1", "]", ".", "t">>  \* n[id:1].t
P_n1 == <<"n", "[", "i", "d", ":", "1", "]">>  \* n[id:1]
P_n3t == <<"n", "[", "i", "d", ":", "3", "]", ".", "t">>  \* n[id:3].t
P_q1b == <<"q", "[", "i", "d", ":", "1", "]", ".", "b">>  \* q[id:1].b
P_qab == <<"q", ".", "a", ".", "b">>  \* q.a.b
P_c0b == <<"c", "[", "0", "]", ".", "b">>  \* c[0].b
P_ni3 == <<"n", "[", "3", "]">>  \* n[3]

MisuseInputs ==
    { Item(P_empty, V_7), Item(P_cb, V_7), Item(P_zb, V_7), Item(P_c1, V_7),
      Item(P_c1t, V_7), Item(P_n1t, V_7), Item(P_n3t, V_7), Item(P_q1b, V_7),
      Item(P_q0b, V_7), Item(P_qab, V_7), Item(P_c0b, V_7), Item(P_ni3, V_7) }

MisuseBatches ==
    { <<Item(P_qab, V_7), Item(P_cb, V_7)>>,
      <<Item(P_n1t, V_7), Item(P_q0b, V_7)>> }

MaxMisuseSteps == 3

InitMisuse == InitWith(TreeNulls, 0)

MoreMisuse == phase.name = "run" /\ Len(calls) < MaxMisuseSteps

MisuseSet ==
    MoreMisuse /\ UNCHANGED phase /\ \E i \in MisuseInputs : Set(i.path, i.lit)
MisuseBatch ==
    MoreMisuse /\ UNCHANGED phase /\ \E items \in MisuseBatches : Batch(items)
MisuseUndo == MoreMisuse /\ UNCHANGED phase /\ Undo
MisuseRedo == MoreMisuse /\ UNCHANGED phase /\ Redo
MisuseClearHistory == MoreMisuse /\ UNCHANGED phase /\ ClearHistory

NextMisuse ==
    MisuseSet \/ MisuseBatch \/ MisuseUndo \/ MisuseRedo \/ MisuseClearHistory

SpecMisuse == InitMisuse /\ [][NextMisuse]_vars

(***************************************************************************)
(* A store with a sequence of elements addressed by Filter tokens          *)
(***************************************************************************)
\* { l: [ { id: 1, d: { k: 1 } }, null ] }
TreeElements ==
    [h |-> << [arr |-> FALSE, len |-> 0, m |-> (<<"l">> :> Ref(2))],
              [arr |-> TRUE, len |-> 2,
               m |-> (<<"0">> :> Ref(3)) @@ (<<"1">> :> Null)],
              [arr |-> FALSE, len |-> 0,
               m |-> (K_id :> Num(1)) @@ (<<"d">> :> Ref(4))],
              [arr |-> FALSE, len |-> 0, m |-> (<<"k">> :> Num(1))] >>,
     v |-> Ref(1)]

P_l1dk == <<"l", "[", "i", "d", ":", "1", "]", ".", "d", ".", "k">>  \* l[id:1].d.k

ElementInputs == { Item(P_l1, V_w), Item(P_l1, V_id2), Item(P_l1dk, V_8) }

ElementBatches == { <<Item(P_l1dk, V_7), Item(P_l1, V_w)>> }

MaxElementSteps == 4

InitElements == InitWith(TreeElements, 0)

MoreElements == phase.name = "run" /\ Len(calls) < MaxElementSteps

ElementSet ==
    MoreElements /\ UNCHANGED phase /\ \E i \in ElementInputs : Set(i.path, i.lit)
ElementBatch ==
    MoreElements /\ UNCHANGED phase /\ \E items \in ElementBatches : Batch(items)
ElementUndo == MoreElements /\ UNCHANGED phase /\ Undo
ElementRedo == MoreElements /\ UNCHANGED phase /\ Redo
ElementGetHistory == MoreElements /\ UNCHANGED phase /\ GetHistory

NextElements ==
    ElementSet \/ ElementBatch \/ ElementUndo \/ ElementRedo \/ ElementGetHistory

SpecElements == InitElements /\ [][NextElements]_vars

(***************************************************************************)
(* A store with listeners                                                  *)
(***************************************************************************)
MaxListeners == 2

ListenInputs == { Item(P_c, V_7), Item(P_c, V_5) }

ListenBatches == { <<Item(P_c, V_7), Item(P_upa, V_true)>>, <<Item(P_c, V_5)>> }

MaxListenSteps == 3

MoreListen == phase.name = "run" /\ Len(calls) < MaxListenSteps

ListenSet ==
    MoreListen /\ UNCHANGED phase /\ \E i \in ListenInputs : Set(i.path, i.lit)
ListenBatch ==
    MoreListen /\ UNCHANGED phase /\ \E items \in ListenBatches : Batch(items)
ListenUndo == MoreListen /\ UNCHANGED phase /\ Undo
ListenRedo == MoreListen /\ UNCHANGED phase /\ Redo
ListenClearHistory == MoreListen /\ UNCHANGED phase /\ ClearHistory
ListenSubscribe ==
    MoreListen /\ UNCHANGED phase /\ \E fn \in 1..MaxListeners : Subscribe(fn)
ListenUnsubscribe ==
    MoreListen /\ UNCHANGED phase /\ \E fn \in 1..MaxListeners : Unsubscribe(fn)

NextListen ==
    \/ ListenSet \/ ListenBatch \/ ListenUndo \/ ListenRedo
    \/ ListenClearHistory \/ ListenSubscribe \/ ListenUnsubscribe

SpecListen == InitKeys /\ [][NextListen]_vars

(***************************************************************************)
(* A store of empty and falsy values                                       *)
(***************************************************************************)
\* { u: {}, e: [], z: null, c: 0 }
TreeEmpties ==
    [h |-> << [arr |-> FALSE, len |-> 0,
               m |-> (<<"u">> :> Ref(2)) @@ (<<"e">> :> Ref(3))
                     @@ (<<"z">> :> Null) @@ (<<"c">> :> Num(0))],
              NewObject,
              NewArray >>,
     v |-> Ref(1)]

P_e == <<"e">>  \* e
P_z == <<"z">>  \* z
P_m == <<"m">>  \* m

V_0 == Scalar(Num(0))
V_null == Scalar(Null)
V_false == Scalar(Bool(FALSE))
\* []
V_list == [h |-> <<NewArray>>, v |-> Ref(1)]
\* [ 7 ]
V_list7 == [h |-> <<[arr |-> TRUE, len |-> 1, m |-> (<<"0">> :> Num(7))]>>, v |-> Ref(1)]
\* { 0: 7 }
V_map7 == Object(<<"0">> :> Num(7))

EqualInputs ==
    { Item(P_u, V_list), Item(P_u, V_empty), Item(P_e, V_empty), Item(P_e, V_list),
      Item(P_e, V_list7), Item(P_e, V_map7), Item(P_z, V_null), Item(P_z, V_0),
      Item(P_c, V_null), Item(P_c, V_0), Item(P_c, V_false), Item(P_m, V_null) }

MaxEqualSteps == 2

InitEqual == InitWith(TreeEmpties, 0)

MoreEqual == phase.name = "run" /\ Len(calls) < MaxEqualSteps

EqualSet == MoreEqual /\ UNCHANGED phase /\ \E i \in EqualInputs : Set(i.path, i.lit)
EqualUndo == MoreEqual /\ UNCHANGED phase /\ Undo
EqualRedo == MoreEqual /\ UNCHANGED phase /\ Redo

NextEqual == EqualSet \/ EqualUndo \/ EqualRedo

SpecEqual == InitEqual /\ [][NextEqual]_vars

(***************************************************************************)
(* The exported functions applied to a tree                                *)
(***************************************************************************)
P_q == <<"q">>  \* q
P_ni5 == <<"n", "[", "5", "]">>  \* n[5]
P_ni0 == <<"n", "[", "0", "]">>  \* n[0]
P_n3 == <<"n", "[", "i", "d", ":", "3", "]">>  \* n[id:3]
P_c0 == <<"c", "[", "0", "]">>  \* c[0]
P_l2 == <<"l", "[", "i", "d", ":", "2", "]">>  \* l[id:2]
P_l1t == <<"l", "[", "i", "d", ":", "1", "]", ".", "t">>  \* l[id:1].t

ApplyTrees == { Tree0, TreeNulls }

ApplyPaths ==
    { P_q, P_qab, P_zb, P_cb, P_c, P_c0, P_c1, P_ni5, P_ni0, P_n3, P_n1, P_n3t,
      P_l2, P_l2t, P_l1t, P_li2, P_upa }

MaxApplySteps == 2

InitApply == \E tree \in ApplyTrees : InitWith(tree, 0)

MoreApply == phase.name = "run" /\ Len(calls) < MaxApplySteps

DoDelete == MoreApply /\ UNCHANGED phase /\ \E path \in ApplyPaths : ApplyDelete(path)
DoProbe == MoreApply /\ UNCHANGED phase /\ \E path \in ApplyPaths : Probe(path)

NextApply == DoDelete \/ DoProbe

SpecApply == InitApply /\ [][NextApply]_vars

(***************************************************************************)
(* A store that persists itself                                            *)
(***************************************************************************)
PersistInputs == { Item(P_c, V_7), Item(P_c, V_5), Item(P_u, V_pa) }

PersistBatches == { <<Item(P_c, V_8), Item(P_upa, V_true)>> }

KeyOptions == {"", "k"}

MaxPersistSteps == 4

MorePersist == phase.name = "run" /\ Len(calls) < MaxPersistSteps

PersistSet ==
    MorePersist /\ UNCHANGED phase /\ \E i \in PersistInputs : Set(i.path, i.lit)
PersistBatch ==
    MorePersist /\ UNCHANGED phase /\ \E items \in PersistBatches : Batch(items)
PersistUndo == MorePersist /\ UNCHANGED phase /\ Undo
PersistRedo == MorePersist /\ UNCHANGED phase /\ Redo
PersistClearHistory == MorePersist /\ UNCHANGED phase /\ ClearHistory
DoPersist == MorePersist /\ UNCHANGED phase /\ \E key \in KeyOptions : Persist(key)
DoUnpersist == MorePersist /\ UNCHANGED phase /\ Unpersist

NextPersist ==
    \/ PersistSet \/ PersistBatch \/ PersistUndo \/ PersistRedo
    \/ PersistClearHistory \/ DoPersist \/ DoUnpersist

SpecPersist == InitKeys /\ [][NextPersist]_vars

(***************************************************************************)
(* A store that persists itself to an adapter that fails                   *)
(***************************************************************************)
\* getItem throws
ReadFails == [EmptyStorage EXCEPT !.reads = FALSE]

\* the adapter holds text that is not JSON
HoldsGarbage == [EmptyStorage EXCEPT !.items = [k \in StorageKeys |-> Garbage]]

\* the adapter holds text that is not JSON, and setItem throws
WriteFails == [HoldsGarbage EXCEPT !.writes = FALSE]

FaultyStorages == { ReadFails, HoldsGarbage, WriteFails }

MaxFaultySteps == 3

InitFaulty == \E to \in FaultyStorages : InitOn(TreeKeys, 0, to)

MoreFaulty == phase.name = "run" /\ Len(calls) < MaxFaultySteps

FaultySet ==
    MoreFaulty /\ UNCHANGED phase /\ \E i \in PersistInputs : Set(i.path, i.lit)
FaultyBatch ==
    MoreFaulty /\ UNCHANGED phase /\ \E items \in PersistBatches : Batch(items)
FaultyUndo == MoreFaulty /\ UNCHANGED phase /\ Undo
FaultyRedo == MoreFaulty /\ UNCHANGED phase /\ Redo
FaultyClearHistory == MoreFaulty /\ UNCHANGED phase /\ ClearHistory
FaultyPersist == MoreFaulty /\ UNCHANGED phase /\ \E key \in KeyOptions : Persist(key)
FaultyUnpersist == MoreFaulty /\ UNCHANGED phase /\ Unpersist

NextFaulty ==
    \/ FaultySet \/ FaultyBatch \/ FaultyUndo \/ FaultyRedo
    \/ FaultyClearHistory \/ FaultyPersist \/ FaultyUnpersist

SpecFaulty == InitFaulty /\ [][NextFaulty]_vars

(***************************************************************************)
(* A store that persists itself and a second store restored from it        *)
(***************************************************************************)
\* The first store enables persistence and is used ("run"); it then stops
\* persisting and makes some undo() and redo() calls ("replay", after call
\* number start); the second store is then constructed and restored from the
\* adapter (call number turn) and makes the same calls ("restored")
ReopenInputs == { Item(P_u, V_pa), Item(P_upa, V_8), Item(P_c, V_7) }

ReopenBatches == { <<Item(P_c, V_8), Item(P_upa, V_true)>> }

MaxRunSteps == 2
MaxReplaySteps == 3

Enabled == phase.name = "run" /\ calls = <<>>
MoreRun == phase.name = "run" /\ storage /\ Len(calls) < MaxRunSteps + 1
MoreReplay == phase.name = "replay" /\ Len(calls) - phase.start < MaxReplaySteps
Mirrored == calls[phase.start + Len(calls) - phase.turn + 1]
MoreMirror ==
    phase.name = "restored" /\ phase.start + Len(calls) - phase.turn + 1 < phase.turn

RunPersist == Enabled /\ UNCHANGED phase /\ Persist("")
RunSet == MoreRun /\ UNCHANGED phase /\ \E i \in ReopenInputs : Set(i.path, i.lit)
RunBatch == MoreRun /\ UNCHANGED phase /\ \E items \in ReopenBatches : Batch(items)
RunUndo == MoreRun /\ UNCHANGED phase /\ Undo
RunRedo == MoreRun /\ UNCHANGED phase /\ Redo
RunUnpersist ==
    /\ phase.name = "run"
    /\ storage
    /\ adapter.items[storageKey].kind = "data"
    /\ Unpersist
    /\ phase' = [name |-> "replay", start |-> Len(calls) + 1, turn |-> 0]
ReplayUndo == MoreReplay /\ UNCHANGED phase /\ Undo
ReplayRedo == MoreReplay /\ UNCHANGED phase /\ Redo
Restore ==
    /\ phase.name = "replay"
    /\ Reopen(TreeKeys, 0, "")
    /\ phase' = [phase EXCEPT !.name = "restored", !.turn = Len(calls) + 1]
MirrorUndo == MoreMirror /\ Mirrored.op = "undo" /\ UNCHANGED phase /\ Undo
MirrorRedo == MoreMirror /\ Mirrored.op = "redo" /\ UNCHANGED phase /\ Redo

NextReopen ==
    \/ RunPersist \/ RunSet \/ RunBatch \/ RunUndo \/ RunRedo \/ RunUnpersist
    \/ ReplayUndo \/ ReplayRedo \/ Restore \/ MirrorUndo \/ MirrorRedo

SpecReopen == InitKeys /\ [][NextReopen]_vars

(***************************************************************************)
(* A store of small capacity restored from what a store of the default     *)
(* capacity persisted                                                      *)
(***************************************************************************)
RestoreOptions == {1, 2}

RestoreCapped ==
    /\ phase.name = "run"
    /\ storage
    /\ adapter.items[storageKey].kind = "data"
    /\ \E option \in RestoreOptions : Reopen(TreeKeys, option, "")
    /\ phase' = [phase EXCEPT !.name = "restored", !.turn = Len(calls) + 1]

MaxCappedSteps == 1

CappedSet ==
    /\ phase.name = "restored"
    /\ Len(calls) < phase.turn + MaxCappedSteps
    /\ UNCHANGED phase
    /\ \E i \in ReopenInputs : Set(i.path, i.lit)

NextRestoreCap ==
    RunPersist \/ RunSet \/ RunBatch \/ RunUndo \/ RunRedo \/ RestoreCapped
    \/ CappedSet

SpecRestoreCap == InitKeys /\ [][NextRestoreCap]_vars

(***************************************************************************)
(* The exported parsePath called on every short path over a few characters *)
(***************************************************************************)
PathChars == {"a", "1", ".", "[", "]", ":"}

MaxPathLen == 5

Paths == UNION {[1..n -> PathChars] : n \in 0..MaxPathLen}

MaxParseSteps == 1

\* parsePath(path)
ParseCall(path) ==
    /\ calls' = Append(calls, Call("parse", path, NoLit, <<>>, "ok", parsePath(path)))
    /\ UNCHANGED <<heap, state, undoStack, redoStack, maxHistory, listeners,
                   storage, storageKey>>
    /\ NoNotify

DoParse ==
    /\ Len(calls) < MaxParseSteps
    /\ UNCHANGED phase
    /\ \E path \in Paths : ParseCall(path)

NextParse == DoParse

SpecParse == Init /\ [][NextParse]_vars

(***************************************************************************)
(* Properties                                                              *)
(***************************************************************************)
Tree == Snapshot(heap, state)

NumCalls == Len(calls)

\* The call just made, and the ones before it
ThisCall == calls[NumCalls]
CallBefore(k) == calls[NumCalls - k]

Returned(c, op, ret) == c.op = op /\ c.ret = ret

\* A set or a batch that recorded a history entry
Mutated(c) == c.op \in {"set", "batch"} /\ c.ret = "ok"

\* The step is a call of op
Calling(op) == Len(calls') = Len(calls) + 1 /\ Last(calls').op = op

\* The target of path exists in the tree and is structurally equal to lit
TargetEquals(path, lit) ==
    LET pr == probe(heap, state, parsePath(path))
    IN /\ ~pr.threw
       /\ pr.exists
       /\ Snapshot(heap, pr.value) = Snapshot(lit.h, lit.v)

\* C1: a set that was not skipped, then undo(), leaves the tree deep-equal
\* to the tree before the set, for every shape of path.
C1_SetUndoRestores ==
    (/\ NumCalls >= 2
     /\ Returned(CallBefore(1), "set", "ok")
     /\ Returned(ThisCall, "undo", "true"))
    => Tree = CallBefore(1).before

\* C3: after a set or a batch that recorded an entry, undo() and then redo()
\* leave the tree deep-equal to the tree the set or batch produced, and the
\* stack lengths as they were right after it, for every shape of path.
C3_UndoRedoRoundTrip ==
    (/\ NumCalls >= 3
     /\ Mutated(CallBefore(2))
     /\ Returned(CallBefore(1), "undo", "true")
     /\ Returned(ThisCall, "redo", "true"))
    => /\ Tree = CallBefore(1).before
       /\ Len(undoStack) = CallBefore(1).undoLen
       /\ Len(redoStack) = CallBefore(1).redoLen

\* C4: set(P, V) when the target of P exists and is deep-equal to V changes
\* nothing: the tree, the undo stack and the redo stack stay as they are and
\* no listener is notified.
C4_NoOpOnEqualValue ==
    [][(Calling("set") /\ TargetEquals(Last(calls').path, Last(calls').lit))
       => /\ UNCHANGED <<heap, state, undoStack, redoStack, notifications>>
          /\ Last(calls').ret = "skip"]_vars

C4_Witness ==
    /\ NumCalls >= 1
    /\ Returned(ThisCall, "set", "skip")
    /\ redoStack # <<>>
    /\ Tree = ThisCall.before

\* Every Index token of the path addresses a sequence of the tree
IndexesSequences(tokens) ==
    \A i \in 1..Len(tokens) :
        tokens[i].type = "index" =>
            IsArray(heap, probe(heap, state, SubSeq(tokens, 1, i - 1)).value)

Settable(tokens) ==
    /\ tokens # <<>>
    /\ Last(tokens).type # "filter"
    /\ IndexesSequences(tokens)

\* The step repeats the set just made, which returned normally
Repeating ==
    /\ Calling("set")
    /\ NumCalls >= 1
    /\ ThisCall.op = "set"
    /\ ThisCall.ret \in {"ok", "skip"}
    /\ Last(calls').path = ThisCall.path
    /\ Last(calls').lit = ThisCall.lit

NoFurtherEntry ==
    /\ Len(undoStack') = Len(undoStack)
    /\ notifications' = notifications
    /\ Last(calls').ret = "skip"

C6_BatchAtomic ==
    /\ (NumCalls >= 1 /\ Returned(ThisCall, "batch", "ok"))
       => Len(undoStack) = IF ThisCall.undoLen < maxHistory
                           THEN ThisCall.undoLen + 1
                           ELSE maxHistory
    /\ (/\ NumCalls >= 2
        /\ Returned(CallBefore(1), "batch", "ok")
        /\ Returned(ThisCall, "undo", "true"))
       => Tree = CallBefore(1).before

\* The paths of the operations are those of some of the items, in order
RECURSIVE Subsequence(_, _, _, _)
Subsequence(ops, i, items, j) ==
    IF i > Len(ops) THEN TRUE
    ELSE IF j > Len(items) THEN FALSE
    ELSE IF ops[i].op = "set" /\ ops[i].path = items[j].path
              /\ Snapshot(heap, ops[i].value) = Snapshot(items[j].lit.h, items[j].lit.v)
         THEN Subsequence(ops, i + 1, items, j + 1)
         ELSE Subsequence(ops, i, items, j + 1)

BatchEntryOf(c, entry) ==
    /\ entry.undo.op = "batch"
    /\ entry.redo.op = "batch"
    /\ Len(c.subs) >= 1
    /\ entry.redo.ops = [i \in 1..Len(c.subs) |-> c.subs[i].redo]
    /\ entry.undo.ops = [i \in 1..Len(c.subs) |-> c.subs[Len(c.subs) + 1 - i].undo]
    /\ Subsequence(entry.redo.ops, 1, c.items, 1)

\* C7: the entry a batch records holds the undo operations of its sub-sets
\* in reverse order of application and their redo operations in order of
\* application; skipped sub-sets contribute to neither list.
C7_BatchInverseOrder ==
    (NumCalls >= 1 /\ Returned(ThisCall, "batch", "ok"))
    => BatchEntryOf(ThisCall, Last(undoStack))

C7_Witness ==
    /\ NumCalls >= 1
    /\ Returned(ThisCall, "batch", "ok")
    /\ Len(ThisCall.subs) = 2
    /\ ThisCall.subs[1].undo # ThisCall.subs[2].undo
    /\ BatchEntryOf(ThisCall, Last(undoStack))

C7_WitnessSkipped ==
    /\ NumCalls >= 1
    /\ Returned(ThisCall, "batch", "ok")
    /\ Len(ThisCall.subs) < Len(ThisCall.items)

\* Every sub-set of the batch finds its target equal to its value
AllDuplicates(items) ==
    \A i \in 1..Len(items) : TargetEquals(items[i].path, items[i].lit)

\* C8: a batch whose function calls no set, or whose every sub-set is skipped
\* as a duplicate, records no entry, leaves the redo stack as it is and
\* notifies nobody.
C8_EmptyBatch ==
    [][(Calling("batch") /\ AllDuplicates(Last(calls').items))
       => /\ UNCHANGED <<heap, state, undoStack, redoStack, notifications>>
          /\ Last(calls').ret = "skip"]_vars

C8_Witness ==
    /\ NumCalls >= 1
    /\ Returned(ThisCall, "batch", "skip")
    /\ Len(ThisCall.items) = 2
    /\ redoStack # <<>>
    /\ Len(undoStack) = ThisCall.undoLen

C8_WitnessNoSet ==
    /\ NumCalls >= 1
    /\ Returned(ThisCall, "batch", "skip")
    /\ ThisCall.items = <<>>
    /\ redoStack # <<>>

NoThrow == \A i \in 1..NumCalls : calls[i].ret # "throw"

InitialTree == calls[1].before

\* The tree when the unwinding started, and the number of undos it made
TreeBeforeUnwinding == calls[phase.start + 1].before
Undone == phase.turn - phase.start - 1
Redone == NumCalls - phase.turn

Unwound == phase.name = "rewind" /\ NumCalls = phase.turn

\* C2 as stated: when no call throws, undo() until it returns false leaves
\* the initial tree, and redo() until it returns false then leaves the tree
\* the unwinding started from.
C2_FullUnwinding ==
    NoThrow =>
        /\ Unwound => Tree = InitialTree
        /\ phase.name = "done" => Tree = TreeBeforeUnwinding

\* C2: over maps, scalars and Key tokens, when no call throws, undo() until
\* it returns false leaves the initial tree; as many redo() calls as undo()
\* returned true then leave the tree the unwinding started from, and so does
\* redo() until it returns false when the redo stack was empty at that start.
C2_UnwindingAndBack ==
    NoThrow =>
        /\ Unwound => Tree = InitialTree
        /\ (phase.name \in {"rewind", "done"} /\ Redone = Undone)
           => Tree = TreeBeforeUnwinding
        /\ (phase.name = "done" /\ calls[phase.start + 1].redoLen = 0)
           => Tree = TreeBeforeUnwinding

C2_Witness ==
    /\ NoThrow
    /\ phase.name = "rewind"
    /\ Undone >= 1
    /\ Redone = Undone
    /\ calls[phase.start + 1].redoLen >= 1
    /\ Tree = TreeBeforeUnwinding
    /\ Tree # InitialTree

\* C9: with maxHistory = m >= 1, the undo stack and the redo stack hold at
\* most m entries in every state reached by set, batch, undo, redo and
\* clearHistory.
C9_StackCapacity ==
    /\ maxHistory >= 1
    /\ Len(undoStack) <= maxHistory
    /\ Len(redoStack) <= maxHistory

C9_Witness ==
    /\ NumCalls >= 1
    /\ Mutated(ThisCall)
    /\ ThisCall.undoLen = maxHistory
    /\ Len(undoStack) = maxHistory

\* The step is a set or a batch that pushes onto a full undo stack
Evicting ==
    /\ Calling("set") \/ Calling("batch")
    /\ Last(calls').ret = "ok"
    /\ Len(undoStack) = maxHistory

\* The first pushes calls all recorded an entry
Pushes(j) == \A i \in 1..j : Mutated(calls[i])

\* After more pushes than maxHistory and nothing else, every undo() of the
\* unwinding leaves the tree one of the pushes started from; the last of them
\* leaves the tree that the newest evicted push produced
UnwindsToEvicted ==
    (/\ phase.name \in {"unwind", "rewind"}
     /\ Pushes(phase.start)
     /\ phase.start > maxHistory)
    => /\ NumCalls - phase.start <= maxHistory + 1
       /\ Tree = calls[phase.start + 1 -
                       IF phase.name = "unwind"
                       THEN NumCalls - phase.start
                       ELSE maxHistory].before
       /\ phase.name = "rewind" => NumCalls - phase.start = maxHistory + 1

\* C10: a set or a batch that pushes onto a full undo stack removes the entry
\* pushed earliest and keeps the others in order under the new entry; the
\* evicted entry's undo is never applied: undoing everything afterwards
\* leaves the tree as it was just after the evicted mutation.
C10_EvictionDropsOldest ==
    [][/\ Evicting => /\ Front(undoStack') = Tail(undoStack)
                      /\ Len(undoStack') = maxHistory
                      /\ Last(undoStack').redo.op = Last(calls').op
       /\ UnwindsToEvicted']_vars

C10_Witness ==
    /\ phase.name = "rewind"
    /\ Pushes(phase.start)
    /\ phase.start > maxHistory
    /\ maxHistory = 2
    /\ Tree = calls[phase.start + 1 - maxHistory].before
    /\ Tree # InitialTree


\* C11: after every set that was not skipped and every batch with a sub-set
\* that was not skipped, the redo stack is empty and getHistory().canRedo is
\* false, whatever the redo stack held before.
C11_RedoCleared ==
    (NumCalls >= 1 /\ Mutated(ThisCall))
    => /\ redoStack = <<>>
       /\ ~historyDirty
       /\ ~cachedHistory.canRedo

C11_Witness ==
    /\ NumCalls >= 1
    /\ Mutated(ThisCall)
    /\ ThisCall.redoLen >= 1
    /\ redoStack = <<>>

\* C13: a successful undo() moves the top entry of the undo stack onto the
\* top of the redo stack, a successful redo() moves the top of the redo stack
\* onto the top of the undo stack; the other entries keep their order and the
\* number of entries on both stacks together is unchanged.
C13_LastInFirstOut ==
    [][/\ (Calling("undo") /\ Last(calls').ret = "true")
          => /\ undoStack # <<>>
             /\ undoStack' = Front(undoStack)
             /\ redoStack' = Append(redoStack, Last(undoStack))
       /\ (Calling("redo") /\ Last(calls').ret = "true")
          => /\ redoStack # <<>>
             /\ redoStack' = Front(redoStack)
             /\ undoStack' = Append(undoStack, Last(redoStack))]_vars

C13_Witness ==
    /\ \E i \in 1..NumCalls :
          /\ Returned(calls[i], "undo", "true")
          /\ calls[i].undoLen >= 2
          /\ calls[i].redoLen >= 1
    /\ Returned(ThisCall, "redo", "true")
    /\ ThisCall.undoLen >= 1
    /\ ThisCall.redoLen >= 2
    /\ Len(undoStack) + Len(redoStack) = ThisCall.undoLen + ThisCall.redoLen

\* No set or batch has recorded an entry since the last clearHistory()
RECURSIVE ClearedSince(_)
ClearedSince(i) ==
    IF i = 0 THEN FALSE
    ELSE IF calls[i].op = "clearHistory" THEN TRUE
    ELSE IF Mutated(calls[i]) THEN FALSE
    ELSE ClearedSince(i - 1)

\* C14: clearHistory() empties both stacks, leaves the tree as it is and
\* notifies once; until a set or a batch records a new entry, undo() and
\* redo() return false.
C14_ClearHistory ==
    [][/\ Calling("clearHistory")
          => /\ undoStack' = <<>>
             /\ redoStack' = <<>>
             /\ UNCHANGED <<heap, state>>
             /\ notifications' = notifications + 1
       /\ ((Calling("undo") \/ Calling("redo")) /\ ClearedSince(NumCalls))
          => Last(calls').ret = "false"]_vars

C14_Witness ==
    /\ NumCalls >= 2
    /\ CallBefore(1).op = "clearHistory"
    /\ CallBefore(1).undoLen >= 1
    /\ Returned(ThisCall, "undo", "false")
    /\ Tree = CallBefore(1).before


\* C15: set, the set of a batch, undo, redo and clearHistory never throw,
\* whatever the tree and the path.
C15_NoOperationThrows == \A i \in 1..NumCalls : calls[i].ret # "throw"

\* The target of the path is missing because an intermediate node is
MissingIntermediate(tokens) ==
    /\ ~probe(heap, state, tokens).threw
    /\ probe(heap, state, tokens).missingIndex >= 0
    /\ probe(heap, state, tokens).missingIndex < Len(tokens) - 1

\* C16: a set whose path has intermediate nodes that are absent from the tree
\* returns, records one entry, and leaves a tree in which probing the path
\* finds the target.
C16_CreatesIntermediates ==
    [][(Calling("set") /\ MissingIntermediate(parsePath(Last(calls').path)))
       => /\ Last(calls').ret = "ok"
          /\ Len(undoStack') = Len(undoStack) + 1
          /\ probe(heap', state', parsePath(Last(calls').path)).exists]_vars


\* What an operation says: its kind, its path and its value as a tree
RECURSIVE OpView(_, _)
OpView(h, op) ==
    [op |-> op.op, path |-> op.path, value |-> Snapshot(h, op.value),
     ops |-> [i \in 1..Len(op.ops) |-> OpView(h, op.ops[i])]]

EntryView(h, entry) ==
    [undo |-> OpView(h, entry.undo), redo |-> OpView(h, entry.redo)]

\* C17: no call changes the path or the value carried by the undo or the
\* redo operation of an entry that is on a stack.
C17_StoredOperationsImmutable ==
    [][/\ \A i \in 1..Len(undoStack) :
             EntryView(heap', undoStack[i]) = EntryView(heap, undoStack[i])
       /\ \A i \in 1..Len(redoStack) :
             EntryView(heap', redoStack[i]) = EntryView(heap, redoStack[i])]_vars


\* C12: undo() on an empty undo stack and redo() on an empty redo stack
\* return false and change neither the tree nor the stacks nor notify; on a
\* stack that is not empty each returns true.
C12_UndoRedoReturn ==
    [][/\ Calling("undo")
          => IF undoStack = <<>>
             THEN /\ Last(calls').ret = "false"
                  /\ UNCHANGED <<heap, state, undoStack, redoStack, notifications>>
             ELSE Last(calls').ret = "true"
       /\ Calling("redo")
          => IF redoStack = <<>>
             THEN /\ Last(calls').ret = "false"
                  /\ UNCHANGED <<heap, state, undoStack, redoStack, notifications>>
             ELSE Last(calls').ret = "true"]_vars

\* The one set that recorded an entry for the path is call i
OnlySetOf(path, i) ==
    /\ Returned(calls[i], "set", "ok")
    /\ calls[i].path = path
    /\ \A j \in 1..NumCalls :
          (Returned(calls[j], "set", "ok") /\ calls[j].path = path) => j = i

\* C18: when no call throws, the value of the undo operation of an
\* overwriting set is, whenever its entry is on the undo stack, deep-equal to
\* the value the target had just before that set.
C18_UndoPayloadIsolated ==
    NoThrow =>
        \A e \in 1..Len(undoStack) : \A i \in 1..NumCalls :
            (undoStack[e].undo.op = "set" /\ OnlySetOf(undoStack[e].undo.path, i))
            => Snapshot(heap, undoStack[e].undo.value) = calls[i].was

\* What getHistory() returns
HistoryNow ==
    IF historyDirty THEN HistoryOf(undoStack, redoStack) ELSE cachedHistory

\* C19: getHistory() reports the lengths of the stacks, canUndo exactly when
\* the undo stack is not empty and canRedo exactly when the redo stack is
\* not; undo() returns true exactly when canUndo was true before the call,
\* and redo() exactly when canRedo was.
C19_HistoryReflectsStacks ==
    [][/\ HistoryNow'.undo = Len(undoStack')
       /\ HistoryNow'.redo = Len(redoStack')
       /\ HistoryNow'.canUndo = (Len(undoStack') > 0)
       /\ HistoryNow'.canRedo = (Len(redoStack') > 0)
       /\ Calling("undo") => (Last(calls').ret = "true") = HistoryNow.canUndo
       /\ Calling("redo") => (Last(calls').ret = "true") = HistoryNow.canRedo]_vars


\* The step is a call that completes a mutation of the tree or the stacks
Completing ==
    \/ (Calling("set") \/ Calling("batch")) /\ Last(calls').ret = "ok"
    \/ (Calling("undo") \/ Calling("redo")) /\ Last(calls').ret = "true"
    \/ Calling("clearHistory")

\* Every listener called once, in subscription order, with the tree and the
\* history the call leaves
Round ==
    [i \in 1..Len(listeners) |->
       [listener |-> listeners[i],
        tree |-> Snapshot(heap', state'),
        history |-> [defined |-> TRUE,
                     undo |-> Len(undoStack'), redo |-> Len(redoStack'),
                     canUndo |-> undoStack' # <<>>, canRedo |-> redoStack' # <<>>]]]

\* C20: a set that is not skipped, a batch with a sub-set that is not
\* skipped, a successful undo or redo and a clearHistory call every listener
\* once, in subscription order, with the final tree and stacks of the call;
\* no other call, and no sub-set of a batch on its own, calls a listener.
C20_NotificationOrder ==
    [][IF Completing THEN heard' = heard \o Round ELSE heard' = heard]_vars

C20_Witness ==
    /\ NumCalls >= 1
    /\ Returned(ThisCall, "batch", "ok")
    /\ Len(ThisCall.subs) = 2
    /\ Len(listeners) = 2
    /\ listeners[1] # listeners[2]
    /\ Len(heard) = 2
    /\ heard[1].listener = listeners[1]
    /\ heard[2].listener = listeners[2]
    /\ heard[1].tree = Tree
    /\ heard[2].history.undo = 1


\* The probe of the path the step's call names, in the tree the call finds
ProbeOf(c) == probe(heap, state, parsePath(c.path))

\* The step is a set that returns and whose probe reports a missing token
Creating ==
    /\ Calling("set")
    /\ Last(calls').ret = "ok"
    /\ ProbeOf(Last(calls')).missingIndex # -1

\* Applying the operation to the tree the step leaves gives back the tree
\* the step started from
Reverses(r) == ~r.threw /\ Snapshot(r.h, state') = Tree

CreationInverse(tokens, missingIndex, undoOp) ==
    /\ undoOp = DeleteOp(reconstructPath(SubSeq(tokens, 1, missingIndex + 1)))
    /\ ~probe(heap, state, SubSeq(tokens, 1, missingIndex + 1)).exists
    /\ Reverses(applyOperation(heap', state', undoOp))

\* C23: when probe reports missingIndex = i # -1 for a set, the recorded undo
\* is the Delete of the path cut after token i, the node at that cut path did
\* not exist before the set, and applying the Delete to the tree the set
\* leaves removes everything the set created or changed, also when the set
\* replaced a node of the wrong type with a map or wrote past the end of a
\* sequence.
C23_CreationInverse ==
    [][Creating => CreationInverse(parsePath(Last(calls').path),
                                   ProbeOf(Last(calls')).missingIndex,
                                   Last(undoStack').undo)]_vars


\* The step is a set that returns and whose probe finds the target
Overwriting ==
    /\ Calling("set")
    /\ Last(calls').ret = "ok"
    /\ ProbeOf(Last(calls')).exists

OverwriteInverse(c, previous, undoOp) ==
    /\ undoOp.op = "set"
    /\ undoOp.path = c.path
    /\ Snapshot(heap', undoOp.value) = c.was
    /\ IsRef(previous) => undoOp.value # previous
    /\ Reverses(applyOperation(heap', state', undoOp))

\* C24: when the target of a set exists and is not deep-equal to the new
\* value, the recorded undo is Set(P, a deep copy of the previous value), and
\* applying it to the tree the set leaves gives back the tree before the set,
\* also when P ends in a Filter token and the new value is a map that adds
\* fields or changes the filtered field.
C24_OverwriteInverse ==
    [][Overwriting => OverwriteInverse(Last(calls'), ProbeOf(Last(calls')).value,
                                       Last(undoStack').undo)]_vars


\* The token is applied to an existing node of the wrong type: a Key to a
\* number, a string or a boolean, an Index to something that is no sequence
WrongType(token, node) ==
    /\ ~node.threw
    /\ node.exists
    /\ ~IsNullish(node.value)
    /\ \/ token.type = "key" /\ ~IsRef(node.value)
       \/ token.type = "index" /\ ~IsArray(heap, node.value)

Mismatches(tokens) ==
    {i \in 1..Len(tokens) :
        WrongType(tokens[i], probe(heap, state, SubSeq(tokens, 1, i - 1)))}

\* After the step the node each mismatched token is applied to is a map or a
\* sequence
Materialized(tokens, is) ==
    \A i \in is : IsRef(probe(heap', state', SubSeq(tokens, 1, i - 1)).value)

MismatchTolerated(c, tokens, target) ==
    /\ c.ret = "ok"
    /\ ~target.threw
    /\ ~target.exists
    /\ Materialized(tokens, Mismatches(tokens))

\* C25: a set whose path applies a Key or an Index token to an existing node
\* of the wrong type finds the target reported as not existing by probe,
\* returns without throwing and leaves a map where the unexpected value was.
C25_TypeMismatchOnSet ==
    [][(Calling("set") /\ Mismatches(parsePath(Last(calls').path)) # {})
       => MismatchTolerated(Last(calls'), parsePath(Last(calls').path),
                            ProbeOf(Last(calls')))]_vars


\* C26: a set is skipped only when the target exists and is structurally
\* equal to the new value: the same scalar, maps with the same keys and equal
\* values, or sequences of the same length with equal elements; a map is not
\* equal to a sequence, and null is equal neither to a missing value nor to
\* another falsy scalar.
C26_StructuralEquality ==
    [][(Calling("set") /\ Last(calls').ret = "skip")
       => TargetEquals(Last(calls').path, Last(calls').lit)]_vars


\* C27: applying Delete(P) to a tree in which the target of P or a node on
\* the way to it does not exist (absent key, index outside the sequence,
\* Filter without a match, Index or Filter on something that is no sequence)
\* does not throw and leaves the tree deep-equal to what it was.
C27_DeleteMissingNoOp ==
    [][(Calling("delete") /\ ~ProbeOf(Last(calls')).exists)
       => /\ Last(calls').ret = "ok"
          /\ Snapshot(heap', state') = Tree]_vars


\* What resolving one token in a node gives, by the rules of the path
\* grammar: [ok, value]
Unresolved == [ok |-> FALSE, value |-> Undefined]

Matches(h, node, token) ==
    {i \in 0..(h[node.n].len - 1) :
        /\ ~IsNullish(Elem(h, node, i))
        /\ LooseEq(h, GetProp(h, Elem(h, node, i), token.key), token.val)}

FirstOf(h, node, is) ==
    IF is = {} THEN Unresolved
    ELSE [ok |-> TRUE, value |-> Elem(h, node, CHOOSE i \in is : \A j \in is : i <= j)]

Resolve(h, node, token) ==
    IF IsNullish(node) THEN Unresolved
    ELSE IF token.type = "key"
    THEN IF IsRef(node) /\ token.key \in Keys(h, node)
         THEN [ok |-> TRUE, value |-> GetProp(h, node, token.key)]
         ELSE Unresolved
    ELSE IF ~IsArray(h, node) THEN Unresolved
    ELSE IF token.type = "index"
    THEN IF token.val.n < h[node.n].len
         THEN [ok |-> TRUE, value |-> Elem(h, node, token.val.n)]
         ELSE Unresolved
    ELSE FirstOf(h, node, Matches(h, node, token))

\* The result probe is to return: the first token that does not resolve
RECURSIVE Resolution(_, _, _, _)
Resolved(h, tokens, i, r) ==
    IF r.ok THEN Resolution(h, r.value, tokens, i + 1)
    ELSE [exists |-> FALSE, value |-> Undefined, missingIndex |-> i - 1, threw |-> FALSE]

Resolution(h, node, tokens, i) ==
    IF i > Len(tokens)
    THEN [exists |-> TRUE, value |-> node, missingIndex |-> -1, threw |-> FALSE]
    ELSE Resolved(h, tokens, i, Resolve(h, node, tokens[i]))

\* C28: probe never changes the tree; it returns exists = true, the addressed
\* value and missingIndex = -1 exactly when every token resolves, and
\* otherwise exists = false with the index of the first token that does not
\* resolve.
C28_ProbeShallowestFailure ==
    [][Calling("probe")
       => /\ UNCHANGED <<heap, state>>
          /\ Last(calls').ret # "throw"
          /\ ProbeOf(Last(calls'))
               = Resolution(heap, state, parsePath(Last(calls').path), 1)]_vars


\* The Filter tokens of the path that address a sequence of the tree
AddressesSequence(r) == r.exists /\ IsArray(heap, r.value)

FilterTokens(tokens) ==
    {i \in 1..Len(tokens) :
        /\ tokens[i].type = "filter"
        /\ AddressesSequence(Resolution(heap, state, SubSeq(tokens, 1, i - 1), 1))}

IsMap(h, v) == IsRef(v) /\ ~h[v.n].arr

\* The fields of the new value are in the element, the element's other
\* fields are as they were
Merged(value, was, element) ==
    /\ IsRef(element)
    /\ \A k \in DOMAIN value.h[value.v.n].m :
          Snapshot(heap', GetProp(heap', element, k))
            = Snapshot(value.h, value.h[value.v.n].m[k])
    /\ \A k \in (DOMAIN was) \ (DOMAIN value.h[value.v.n].m) :
          GetProp(heap', element, k) = was[k]

\* No element matched: one element is appended after the others
Appended(c, token, last, seq, len) ==
    /\ heap'[seq.n].len = len + 1
    /\ \A j \in 0..(len - 1) :
          Snapshot(heap', Elem(heap', seq, j)) = Snapshot(heap, Elem(heap, seq, j))
    /\ IF last /\ IsMap(c.lit.h, c.lit.v)
       THEN Merged(c.lit, token.key :> token.val, Elem(heap', seq, len))
       ELSE GetProp(heap', Elem(heap', seq, len), token.key) = token.val

\* The element at position j matched: no element is added
Matched(c, last, seq, len, j) ==
    /\ heap'[seq.n].len = len
    /\ (last /\ IsMap(c.lit.h, c.lit.v))
       => Merged(c.lit, heap[Elem(heap, seq, j).n].m, Elem(heap', seq, j))

Selected(c, token, last, seq, ms) ==
    IF ms = {} THEN Appended(c, token, last, seq, heap[seq.n].len)
    ELSE Matched(c, last, seq, heap[seq.n].len,
                 CHOOSE i \in ms : \A j \in ms : i <= j)

FilterSelects(c, tokens, i, seq) ==
    Selected(c, tokens[i], i = Len(tokens), seq, Matches(heap, seq, tokens[i]))

\* C29: for a Filter token of a set path that addresses a sequence, when no
\* element matches exactly one element seeded with the filter's field and
\* value is appended and the others keep their content and order, and when
\* an element matches none is added; when the Filter is the last token and
\* the new value is a map, its fields are merged into the matched or seeded
\* element, whose other fields keep their values.
C29_FilterOnSet ==
    [][Calling("set")
       => \A i \in FilterTokens(parsePath(Last(calls').path)) :
             /\ Last(calls').ret # "throw"
             /\ FilterSelects(Last(calls'), parsePath(Last(calls').path), i,
                   Resolution(heap, state,
                              SubSeq(parsePath(Last(calls').path), 1, i - 1), 1).value)]_vars


\* C21: while persistence is enabled, after every call that notifies the
\* adapter holds under the storage key the serialization of the tree and the
\* two stacks the call leaves, written by one setItem; while it is disabled
\* no call other than persist makes the adapter see a write.
C21_PersistenceTracksStore ==
    [][/\ (Completing /\ storage)
          => /\ adapter'.items[storageKey]
                  = Serialize(heap', state', undoStack', redoStack')
             /\ adapter'.puts = adapter.puts + 1
             /\ \A k \in StorageKeys \ {storageKey} :
                   adapter'.items[k] = adapter.items[k]
       /\ (~storage /\ ~Calling("persist")) => adapter' = adapter]_vars

C21_Witness ==
    /\ NumCalls >= 3
    /\ CallBefore(1).op = "unpersist"
    /\ Mutated(ThisCall)
    /\ ~storage
    /\ storageKey = "k"
    /\ adapter.puts = 1
    /\ adapter.items["k"].kind = "data"
    /\ Len(adapter.items["k"].undoStack) = 1
    /\ Len(undoStack) = 2


\* What a call does to the tree and the stacks of a store that has no
\* storage: the step leaves that tree and those stacks
LeavesTree(h) == Snapshot(heap', state') = Snapshot(h, state)

Pushed(recorded) ==
    IF recorded
    THEN /\ Front(undoStack') = undoStack
         /\ redoStack' = <<>>
    ELSE UNCHANGED <<undoStack, redoStack>>

SetInMemory(r) == LeavesTree(r.h) /\ Pushed(r.kind = "ok")

SetAllocated(c, a) == SetInMemory(SetCore(a.h, state, c.path, a.v))

BatchInMemory(b) == LeavesTree(b.h) /\ Pushed(~b.threw /\ Len(b.undoOps) > 0)

UndoInMemory ==
    IF undoStack = <<>>
    THEN UNCHANGED <<heap, state, undoStack, redoStack>>
    ELSE /\ LeavesTree(applyOperation(heap, state, Last(undoStack).undo).h)
         /\ undoStack' = Front(undoStack)
         /\ redoStack' = Append(redoStack, Last(undoStack))

RedoInMemory ==
    IF redoStack = <<>>
    THEN UNCHANGED <<heap, state, undoStack, redoStack>>
    ELSE /\ LeavesTree(applyOperation(heap, state, Last(redoStack).redo).h)
         /\ redoStack' = Front(redoStack)
         /\ undoStack' = Append(undoStack, Last(redoStack))

InMemory(c) ==
    CASE c.op = "set" -> SetAllocated(c, Alloc(heap, c.lit))
      [] c.op = "batch" -> BatchInMemory(BatchRun(heap, state, c.items, 1, <<>>, <<>>))
      [] c.op = "undo" -> UndoInMemory
      [] c.op = "redo" -> RedoInMemory
      [] c.op = "clearHistory" ->
           UNCHANGED <<heap, state>> /\ undoStack' = <<>> /\ redoStack' = <<>>
      [] OTHER -> TRUE

\* The step is a persist that cannot restore: getItem throws or the text
\* under the key is not JSON
FailedRestore ==
    /\ Calling("persist")
    /\ ~adapter.reads \/ adapter.items[storageKey'].kind = "garbage"

\* C22: when the adapter throws on getItem or setItem, or holds text that is
\* not JSON, no call of persist, set, batch, undo, redo or clearHistory
\* throws; set, batch, undo, redo and clearHistory leave the tree and the
\* stacks that they leave in a store without storage, and a persist that
\* cannot restore leaves the tree and the stacks as they were.
C22_PersistenceFailuresIsolated ==
    [][/\ Len(calls') = Len(calls) + 1 => Last(calls').ret # "throw"
       /\ Len(calls') = Len(calls) + 1 => InMemory(Last(calls'))
       /\ FailedRestore => UNCHANGED <<heap, state, undoStack, redoStack>>]_vars

C22_Witness ==
    /\ NumCalls >= 3
    /\ Returned(calls[1], "set", "ok")
    /\ CallBefore(1).op = "persist"
    /\ Returned(ThisCall, "undo", "true")
    /\ ~adapter.writes
    /\ adapter.puts = 1
    /\ adapter.items[storageKey] = Garbage
    /\ Tree = calls[1].before


\* The tree and the stack lengths that call number i left
LeftBy(i) ==
    IF i = NumCalls
    THEN [tree |-> Tree, undo |-> Len(undoStack), redo |-> Len(redoStack)]
    ELSE [tree |-> calls[i + 1].before, undo |-> calls[i + 1].undoLen,
          redo |-> calls[i + 1].redoLen]

\* C30: a store restored from what another store persisted has a tree
\* deep-equal to the other's and stacks of the same lengths, and the two stay
\* so after the same undo() and redo() calls are made on both.
C30_RestoredBehavesAlike ==
    (phase.name = "restored" /\ NoThrow)
    => LeftBy(NumCalls) = LeftBy(phase.start + NumCalls - phase.turn)

\* C31: a set that throws, at top level or as the first set of a batch,
\* leaves the tree and both stacks exactly as they were before the call: no
\* container created while walking the path stays behind.
C31_FailedSetNoEffect ==
    [][((Calling("set") /\ Last(calls').ret = "throw")
        \/ (Calling("batch") /\ Last(calls').ret = "throw"
            /\ Len(Last(calls').subs) = 0))
       => /\ Snapshot(heap', state') = Tree
          /\ undoStack' = undoStack
          /\ redoStack' = redoStack]_vars

\* The step is a batch whose callback throws after sets of it were applied
BatchFailing ==
    /\ Calling("batch")
    /\ Last(calls').ret = "throw"
    /\ Len(Last(calls').subs) > 0

\* C32: a batch whose callback throws after some of its sets were applied
\* either leaves the tree as it was before the batch, or records one entry for
\* the applied sets and empties the redo stack.
C32_FailedBatchAtomic ==
    [][BatchFailing
       => \/ Snapshot(heap', state') = Tree
          \/ /\ Len(undoStack') = Len(undoStack) + 1
             /\ redoStack' = <<>>]_vars


\* C33: right after a store is restored from storage, its undo stack and its
\* redo stack each hold at most maxHistory entries, also when the persisted
\* stacks are longer than that.
C33_RestoreWithinCapacity ==
    (NumCalls > 0 /\ ThisCall.op \in {"reopen", "persist"})
    => /\ Len(undoStack) <= maxHistory
       /\ Len(redoStack) <= maxHistory


\* The maxHistory option the store was constructed with
Supplied == CHOOSE option \in SuppliedOptions : Construct(option) = maxHistory

\* C34: a store constructed with options.maxHistory = m, for m >= 0 and
\* m = 0 included, never holds more than m undo entries.
C34_SuppliedCapacityHonoured == Len(undoStack) <= Supplied


\* The token of a bracket fragment whose text is inner: an Index for digits,
\* a Filter for word:rest, none for anything else
Bracketed(inner, colon) ==
    IF IsDigits(inner) THEN <<IndexToken(DigitsToNat(inner))>>
    ELSE IF /\ colon > 1
            /\ colon < Len(inner)
            /\ \A j \in 1..(colon - 1) : inner[j] \in WordChars
    THEN <<FilterToken(SubSeq(inner, 1, colon - 1),
                       FilterValue(SubSeq(inner, colon + 1, Len(inner))))>>
    ELSE <<>>

\* The tokens of the well-formed fragments of a path from position i on: a
\* bracket fragment runs from its "[" to the next "]", or to the end of the
\* path when it is not closed
RECURSIVE Fragments(_, _)
BracketFragment(path, close, inner) ==
    (IF close <= Len(path) THEN Bracketed(inner, FindChar(inner, 1, ":")) ELSE <<>>)
    \o Fragments(path, close + 1)

KeyFragment(path, i, end) ==
    <<KeyToken(SubSeq(path, i, end - 1))>> \o Fragments(path, end)

Fragments(path, i) ==
    IF i > Len(path) THEN <<>>
    ELSE IF path[i] = "["
    THEN BracketFragment(path, FindChar(path, i + 1, "]"),
                         SubSeq(path, i + 1, FindChar(path, i + 1, "]") - 1))
    ELSE IF path[i] \in {".", "]"} THEN Fragments(path, i + 1)
    ELSE KeyFragment(path, i, RunEnd(path, i, AllChars(path) \ {".", "[", "]"}))

\* A "[" stands inside a bracket fragment
Nested(path) ==
    \E i \in 1..Len(path) : \E j \in (i + 1)..Len(path) :
        /\ path[i] = "["
        /\ path[j] = "["
        /\ \A k \in (i + 1)..(j - 1) : path[k] # "]"

\* C35: parsePath returns, and its tokens are exactly those of the well-formed
\* fragments of the path; a bracket fragment that is neither [digits] nor
\* [word:rest], or that is not closed, gives no token.
C35_MalformedFragmentsSkipped ==
    \A i \in 1..NumCalls :
        (calls[i].op = "parse" /\ ~Nested(calls[i].path))
        => /\ calls[i].ret = "ok"
           /\ calls[i].subs = Fragments(calls[i].path, 1)

=============================================================================
